---- MODULE Spec2Model ----
(***************************************************************************)
(* Verification model of the rdb-tunnel packet engine.                     *)
(*                                                                         *)
(*   SpecFirewall : IpFirewall of src/firewall.rs (add_rule, check)        *)
(*   SpecWriter   : handle_interface -> rdb_tunnel_packet_write ->         *)
(*                  PACKET_BUFFER -> start_packet_writer/process_packets   *)
(*   SpecPoller   : PacketPoller::poll_packets against the packets table   *)
(*   SpecInjector : PacketPoller::poll_and_send_packets, the send loop     *)
(*   SpecParse    : parse_and_analyze_packet applied to boundary frames     *)
(*   SpecReassembly : IpReassembler of src/host_idps/ip_reassembly.rs       *)
(*   SpecTcp      : process_tcp_data, TcpStream::update and the flow table  *)
(*                  of src/host_ids                                         *)
(*   SpecPipeline : PacketPipeline::start/stop under the select! of        *)
(*                  run_application, with the writer and injector loops    *)
(*   SpecPipelineFair : SpecPipeline with the tasks' steps weakly fair     *)
(*   SpecConfig   : AppConfig::from_env over the process environment       *)
(*   SpecRuleList : security::firewall::Firewall (add_rule, remove_rule,   *)
(*                  check) and vpn::firewall::IpFirewall::add_rule         *)
(*   SpecBatch    : process_packets over bursts of pushed frames           *)
(*   SpecCleanup  : IpReassembler::cleanup on a table at or over its limit *)
(*   SpecOptions  : parse_tcp_options of src/inspector/tcp_header.rs, one  *)
(*                  loop iteration per step                                *)
(*                                                                         *)
(* Every specification constrains all variables; the variables of the      *)
(* components a specification does not exercise stay at their initial      *)
(* values.                                                                 *)
(***************************************************************************)
EXTENDS Integers, Sequences, FiniteSets, TLC

VARIABLES
    \* ---- src/firewall.rs : IpFirewall ----
    fw_policy,      \* IpFirewall.policy
    fw_rules,       \* IpFirewall.rules : HashMap<Filter, u8>, a function Filter -> priority
    fw_order,       \* ghost: the HashMap iteration order the last check walked
    fw_packet,      \* ghost: the FirewallPacket handed to the last check of the current rules
    fw_result,      \* ghost: what that check returned
    \* ---- src/packet_analysis.rs, src/db_write.rs : capture and writer ----
    now,            \* Utc::now() of this host
    captured,       \* frames read from the L2 channel, in capture order (index = frame id)
    tasks,          \* per frame id, the spawned rdb_tunnel_packet_write task
    PACKET_BUFFER,  \* the staging buffer: Vec<PacketData>
    pushOrder,      \* ghost: frame ids in the order they were pushed
    writer,         \* start_packet_writer / process_packets: position and locals
    db_committed,   \* packets table as written by this writer: sequence of committed batches
    lastFlush,      \* ghost: outcome and batch of the last finished process_packets
    \* ---- src/db_read.rs : PacketPoller ----
    pnow,           \* chrono::Utc::now() of the polling host (also the store's NOW())
    db_rows,        \* packets table as seen by the poller: set of visible rows
    last_timestamp, \* PacketPoller.last_timestamp : Option<DateTime>
    is_first_poll,  \* PacketPoller.is_first_poll
    lastPoll,       \* ghost: outcome of the last poll_packets call
    delivered,      \* ghost: ids of the rows returned by the polls so far
    \* ---- src/db_read.rs : poll_and_send_packets ----
    packets_sent,   \* PacketPoller.packets_sent : AtomicU64
    packets_failed, \* PacketPoller.packets_failed : AtomicU64
    inj,            \* poll_and_send_packets: position and the packets still to walk
    pass,           \* ghost: what the current or last pass polled, sent and logged
    \* ---- src/db_write.rs : parse_and_analyze_packet on its own ----
    pf_frame,       \* the ethernet_packet argument
    pf_result,      \* None before the call; Some(record) or Some(Panic) after it
    \* ---- src/host_idps/ip_reassembly.rs : IpReassembler ----
    ra_now,         \* Instant::now()
    buffers,        \* IpReassembler.buffers : key -> [fragments, total_length, last_activity]
    last_cleanup,   \* IpReassembler.last_cleanup
    packets_processed, \* IpReassembler.packets_processed
    ra_last,        \* ghost: the last process_packet call, the buffer it walked, its return
    ra_arrived,     \* ghost: per key, the fragments handed in so far, in arrival order
    ra_emitted,     \* ghost: per key, the payloads returned so far
    ra_evicted,     \* ghost: keys a cleanup removed a buffer of
    ra_last_arrival, \* ghost: per key, the arrival time of its latest fragment
    ra_timed_out,   \* ghost: the removals by the timeout retain: key, instant, latest arrival
    \* ---- src/host_ids : packet_analysis, process_tcp_data, TcpStream ----
    tc_now,         \* Instant::now() of the capture loop
    streams,        \* HashMap<TcpStreamKey, TcpStream>
    tc_last,        \* ghost: the last packet, and the flow it met before and after update
    tc_scenario,    \* ghost: how far the packets so far follow the handshake scenario
    \* ---- src/main.rs, src/core/tunnel.rs : run_application and the PacketPipeline ----
    signal,         \* the oneshot shutdown channel holds the message of the SIGINT handler
    running,        \* PacketPipeline.running : Mutex<bool>
    app,            \* main / run_application: position and the error it exits with
    receive_task,   \* start_receive_pipeline: position
    transmit_task,  \* start_transmit_pipeline: position, fetched packets left to inject
    writer_loop,    \* start_packet_writer of src/db_write.rs: position in its loop
    inject_loop,    \* inject_packet of src/db_read.rs: position in its loop
    recovered,      \* ghost: the errors a task logged before going on
    \* ---- src/core/config.rs : Configuration::from_env ----
    cf_env,         \* the process environment (after dotenv): key -> Option<OsString>
    cf_result,      \* None before the call; Some(Ok(config)) or Some(Err(..)) after it
    \* ---- src/security/firewall/filter.rs : Firewall; src/vpn/firewall.rs : IpFirewall ----
    sec_rules,      \* Firewall.rules : the Vec<FirewallRule> inside the RwLock
    sec_lock,       \* the RwLock: a writer holds it, or so many readers do
    sec_writer,     \* the task inside add_rule / remove_rule: position and argument
    sec_reader,     \* the task inside check: position, packet, index of the rule it is at
    ip_rules,       \* IpFirewall.rules : Vec<Rule>
    \* ---- src/db_write.rs : the PACKET_BUFFER mutex and the writer's statements ----
    buffer_lock,    \* who holds PACKET_BUFFER's Mutex: "free" or "writer"
    drained,        \* ghost: how many frames the writer ticks have drained so far
    inserts,        \* ghost: rows of each INSERT the current or last transaction executed
    bursts,         \* ghost: bursts of pushes so far
    \* ---- src/host_idps/ip_reassembly.rs : IpReassembler::cleanup on a full table ----
    cl_buffers,     \* IpReassembler.buffers when cleanup is entered
    cl_call,        \* ghost: the cleanup call: its instant and the map it met, or None
    cl_after,       \* IpReassembler.buffers when cleanup returns, or None
    \* ---- src/inspector/tcp_header.rs : parse_tcp_options, one loop iteration per step ----
    opt_data,       \* data: &[u8]
    opt_i,          \* the scan index i
    opt_pc,         \* "idle", "loop" (at the while condition) or "done" (returned)
    opt_ret,        \* the Option<u16> returned, once done
    opt_iterations  \* ghost: loop iterations of the current call

fwVars == <<fw_policy, fw_rules, fw_order, fw_packet, fw_result>>
wrVars == <<now, captured, tasks, PACKET_BUFFER, pushOrder, writer, db_committed, lastFlush>>
plVars == <<pnow, db_rows, last_timestamp, is_first_poll, lastPoll, delivered>>
injVars == <<packets_sent, packets_failed, inj, pass>>
pfVars == <<pf_frame, pf_result>>
raVars == <<ra_now, buffers, last_cleanup, packets_processed, ra_last, ra_arrived,
           ra_emitted, ra_evicted, ra_last_arrival, ra_timed_out>>
tcVars == <<tc_now, streams, tc_last, tc_scenario>>
ppVars == <<signal, running, app, receive_task, transmit_task, writer_loop, inject_loop, recovered>>
cfVars == <<cf_env, cf_result>>
secVars == <<sec_rules, sec_lock, sec_writer, sec_reader, ip_rules>>
wgVars == <<buffer_lock, drained, inserts, bursts>>
clVars == <<cl_buffers, cl_call, cl_after>>
optVars == <<opt_data, opt_i, opt_pc, opt_ret, opt_iterations>>
vars == <<fwVars, wrVars, plVars, injVars, pfVars, raVars, tcVars, ppVars, cfVars, secVars, wgVars, clVars, optVars>>

\* what the actions of one component leave alone
notFw == <<wrVars, plVars, injVars, pfVars, raVars, tcVars, ppVars, cfVars, secVars, wgVars, clVars, optVars>>
notWr == <<fwVars, plVars, injVars, pfVars, raVars, tcVars, ppVars, cfVars, secVars, clVars, optVars>>
notPl == <<fwVars, wrVars, injVars, pfVars, raVars, tcVars, ppVars, cfVars, secVars, wgVars, clVars, optVars>>
notInj == <<fwVars, wrVars, pfVars, raVars, tcVars, ppVars, cfVars, secVars, wgVars, clVars, optVars>>
notPf == <<fwVars, wrVars, plVars, injVars, raVars, tcVars, ppVars, cfVars, secVars, wgVars, clVars, optVars>>
notRa == <<fwVars, wrVars, plVars, injVars, pfVars, tcVars, ppVars, cfVars, secVars, wgVars, clVars, optVars>>
notTc == <<fwVars, wrVars, plVars, injVars, pfVars, raVars, ppVars, cfVars, secVars, wgVars, clVars, optVars>>

\* ------------------------------------------------------------------------
\* Generic helpers
\* ------------------------------------------------------------------------
None == <<>>
Some(x) == <<x>>

Range(s) == { s[i] : i \in 1..Len(s) }

Perms(S) == { s \in [1..Cardinality(S) -> S] : Range(s) = S }

IsPrefix(p, s) == Len(p) <= Len(s) /\ \A i \in 1..Len(p) : p[i] = s[i]

RECURSIVE Flatten(_)
Flatten(ss) == IF ss = <<>> THEN <<>> ELSE Head(ss) \o Flatten(Tail(ss))

V4(a, b, c, d) == [ver |-> 4, octets |-> <<a, b, c, d>>]

\* ------------------------------------------------------------------------
\* src/firewall.rs
\* ------------------------------------------------------------------------
IpAddressFilter(ip) == [kind |-> "IpAddress", val |-> ip]
PortFilter(p)       == [kind |-> "Port", val |-> p]
ProtocolFilter(p)   == [kind |-> "Protocol", val |-> p]

FirewallPacket(src_ip, dst_ip, src_port, dst_port, ip_version) ==
    [src_ip |-> src_ip, dst_ip |-> dst_ip, src_port |-> src_port,
     dst_port |-> dst_port, ip_version |-> ip_version]

\* the match arms of check: does this filter match the packet
filter_matches(filter, packet) ==
    CASE filter.kind = "IpAddress" -> packet.src_ip = filter.val \/ packet.dst_ip = filter.val
      [] filter.kind = "Port"      -> packet.src_port = filter.val \/ packet.dst_port = filter.val
      [] filter.kind = "Protocol"  -> packet.ip_version = filter.val

\* `if *priority > max_priority`
priority_guard(priority, max_priority) == priority > max_priority

\* the for loop of check over the HashMap in iteration order `order`;
\* st = [fired, max_priority], fired standing for allow (Whitelist) / block (Blacklist)
RECURSIVE check_loop(_, _, _, _, _)
check_loop(rules, order, packet, i, st) ==
    IF i > Len(order) THEN st
    ELSE LET filter == order[i]
             priority == rules[filter]
             hit == priority_guard(priority, st.max_priority) /\ filter_matches(filter, packet)
         IN check_loop(rules, order, packet, i + 1,
                       IF hit THEN [fired |-> TRUE, max_priority |-> priority] ELSE st)

check(rules, order, policy, packet) ==
    LET st == check_loop(rules, order, packet, 1, [fired |-> FALSE, max_priority |-> 0])
    IN IF policy = "Whitelist" THEN st.fired ELSE ~st.fired

\* IpFirewall::add_rule : HashMap::insert
add_rule(rules, filter, priority) ==
    [f \in (DOMAIN rules) \cup {filter} |-> IF f = filter THEN priority ELSE rules[f]]

EmptyRules == [f \in {} |-> 0]

\* ---- bounds and sample inputs of SpecFirewall ----
MaxPriority == 2
FwIpA == V4(160, 251, 175, 134)
FwIpB == V4(10, 0, 0, 2)
FwIps == {FwIpA, FwIpB}
FwPorts == {22, 80}
FwFilters == {IpAddressFilter(FwIpA), PortFilter(22), ProtocolFilter(6)}
\* one packet per way of matching a filter, one matching none, one matching all
FwPackets ==
    { FirewallPacket(FwIpB, FwIpB, 80, 80, 4),
      FirewallPacket(FwIpA, FwIpB, 80, 80, 4),
      FirewallPacket(FwIpB, FwIpA, 80, 80, 4),
      FirewallPacket(FwIpB, FwIpB, 22, 80, 4),
      FirewallPacket(FwIpB, FwIpB, 80, 22, 4),
      FirewallPacket(FwIpB, FwIpB, 80, 80, 6),
      FirewallPacket(FwIpA, FwIpA, 22, 22, 6) }

FwInit ==
    /\ fw_policy = "Blacklist"
    /\ fw_rules = EmptyRules
    /\ fw_order = <<>>
    /\ fw_packet = None
    /\ fw_result = FALSE

\* IpFirewall::new(policy)
FwNew ==
    \E policy \in {"Whitelist", "Blacklist"} :
        /\ fw_policy' = policy
        /\ fw_rules' = EmptyRules
        /\ fw_order' = <<>>
        /\ fw_packet' = None
        /\ fw_result' = FALSE
        /\ UNCHANGED notFw

FwAddRule ==
    \E filter \in FwFilters, priority \in 0..MaxPriority :
        /\ fw_rules' = add_rule(fw_rules, filter, priority)
        /\ fw_packet' = None      \* the last check no longer describes these rules
        /\ fw_order' = <<>>
        /\ fw_result' = FALSE
        /\ UNCHANGED <<fw_policy, notFw>>

FwCheck ==
    \E packet \in FwPackets, order \in Perms(DOMAIN fw_rules) :
        /\ fw_packet' = Some(packet)
        /\ fw_order' = order
        /\ fw_result' = check(fw_rules, order, fw_policy, packet)
        /\ UNCHANGED <<fw_policy, fw_rules, notFw>>

\* ------------------------------------------------------------------------
\* src/cache/packet_header.rs, src/db_write.rs : header parser
\* ------------------------------------------------------------------------
\* byte i (0-based, as in the source) of a slice
At(pkt, i) == pkt[i + 1]

\* pkt[from..to]  (0-based, `to` exclusive)
Slice(pkt, from, to) == SubSeq(pkt, from + 1, to)

be16(hi, lo) == hi * 256 + lo

PROTOCOL_UNKNOWN == 0
ZeroMac == <<0, 0, 0, 0, 0, 0>>
ZeroIp == V4(0, 0, 0, 0)
Panic == [panic |-> TRUE]

\* parse_ip_header(data): Some(header), None, or an index panic on a short slice.
\* res is "some" / "none" / "panic"
parse_ip_header(data) ==
    IF Len(data) < 1 THEN [res |-> "panic"]
    ELSE LET version == At(data, 0) \div 16 IN
         CASE version = 4 ->
                IF Len(data) < 20 THEN [res |-> "panic"]
                ELSE [res |-> "some", version |-> 4, protocol |-> At(data, 9),
                      src_ip |-> [ver |-> 4, octets |-> Slice(data, 12, 16)],
                      dst_ip |-> [ver |-> 4, octets |-> Slice(data, 16, 20)]]
           [] version = 6 ->
                IF Len(data) < 40 THEN [res |-> "panic"]
                ELSE [res |-> "some", version |-> 6, protocol |-> At(data, 6),
                      src_ip |-> [ver |-> 6, octets |-> Slice(data, 8, 24)],
                      dst_ip |-> [ver |-> 6, octets |-> Slice(data, 24, 40)]]
           [] OTHER -> [res |-> "none"]

create_empty_packet_data(raw_packet) ==
    [panic |-> FALSE, src_mac |-> ZeroMac, dst_mac |-> ZeroMac,
     ether_type |-> PROTOCOL_UNKNOWN, src_ip |-> ZeroIp, dst_ip |-> ZeroIp,
     src_port |-> 0, dst_port |-> 0, ip_protocol |-> PROTOCOL_UNKNOWN,
     data |-> <<>>, raw_packet |-> raw_packet]

\* the PacketData built at the end of inner_parse; the slice
\* ethernet_packet[payload_offset..] panics when payload_offset > len
build_packet_data(pkt, ether_type, src_ip, dst_ip, src_port, dst_port, ip_protocol, payload_offset) ==
    IF payload_offset > Len(pkt) THEN Panic
    ELSE [panic |-> FALSE, src_mac |-> Slice(pkt, 6, 12), dst_mac |-> Slice(pkt, 0, 6),
          ether_type |-> ether_type, src_ip |-> src_ip, dst_ip |-> dst_ip,
          src_port |-> src_port, dst_port |-> dst_port, ip_protocol |-> ip_protocol,
          data |-> Slice(pkt, payload_offset, Len(pkt)), raw_packet |-> pkt]

\* the 0x0800 arm
parse_ipv4_arm(pkt) ==
    IF ~(Len(pkt) > 23)
    THEN build_packet_data(pkt, 2048, ZeroIp, ZeroIp, 0, 0, PROTOCOL_UNKNOWN, 14)
    ELSE LET h == parse_ip_header(Slice(pkt, 14, Len(pkt))) IN
         CASE h.res = "panic" -> Panic
           [] h.res = "none" ->
                build_packet_data(pkt, 2048, ZeroIp, ZeroIp, 0, 0, PROTOCOL_UNKNOWN, 14)
           [] OTHER ->
                LET ihl == (At(pkt, 14) % 16) * 4
                    po == 14 + ihl
                    protocol == At(pkt, 23)
                    l4 == protocol \in {6, 17} /\ Len(pkt) >= po + 4
                    src_port == IF l4 THEN be16(At(pkt, po), At(pkt, po + 1)) ELSE 0
                    dst_port == IF l4 THEN be16(At(pkt, po + 2), At(pkt, po + 3)) ELSE 0
                    po2 == IF ~l4 THEN po
                           ELSE IF protocol = 6 /\ Len(pkt) > po + 12
                                THEN po + (At(pkt, po + 12) \div 16) * 4
                                ELSE po + 8
                IN build_packet_data(pkt, 2048, h.src_ip, h.dst_ip, src_port, dst_port,
                                     protocol, po2)

\* the 0x86DD arm
parse_ipv6_arm(pkt) ==
    IF ~(Len(pkt) > 54)
    THEN build_packet_data(pkt, 34525, ZeroIp, ZeroIp, 0, 0, PROTOCOL_UNKNOWN, 14)
    ELSE LET h == parse_ip_header(Slice(pkt, 14, Len(pkt))) IN
         CASE h.res = "panic" -> Panic
           [] h.res = "none" ->
                build_packet_data(pkt, 34525, ZeroIp, ZeroIp, 0, 0, PROTOCOL_UNKNOWN, 14)
           [] OTHER ->
                LET next_header == At(pkt, 20)
                    po == 54
                    l4 == next_header \in {6, 17} /\ Len(pkt) >= po + 4
                    src_port == IF l4 THEN be16(At(pkt, po), At(pkt, po + 1)) ELSE 0
                    dst_port == IF l4 THEN be16(At(pkt, po + 2), At(pkt, po + 3)) ELSE 0
                IN build_packet_data(pkt, 34525, h.src_ip, h.dst_ip, src_port, dst_port,
                                     next_header, po)

\* the 0x0806 arm: the slices [28..32] and [38..42] panic on a frame shorter than 42
parse_arp_arm(pkt) ==
    IF ~(Len(pkt) >= 28)
    THEN build_packet_data(pkt, 2054, ZeroIp, ZeroIp, 0, 0, PROTOCOL_UNKNOWN, 14)
    ELSE IF Len(pkt) < 42 THEN Panic
    ELSE build_packet_data(pkt, 2054,
                           [ver |-> 4, octets |-> Slice(pkt, 28, 32)],
                           [ver |-> 4, octets |-> Slice(pkt, 38, 42)],
                           0, 0, PROTOCOL_UNKNOWN, 14)

\* inner_parse(ethernet_packet, depth), without the timestamp (the caller's clock)
inner_parse(pkt, depth) ==
    IF depth > 5 \/ Len(pkt) < 14 THEN create_empty_packet_data(pkt)
    ELSE LET ether_type == be16(At(pkt, 12), At(pkt, 13)) IN
         CASE ether_type = 2048  -> parse_ipv4_arm(pkt)
           [] ether_type = 34525 -> parse_ipv6_arm(pkt)
           [] ether_type = 2054  -> parse_arp_arm(pkt)
           [] OTHER -> create_empty_packet_data(pkt)

parse_and_analyze_packet(pkt) == inner_parse(pkt, 0)

\* ---- sample frames of SpecWriter ----
MacA == <<2, 0, 0, 0, 0, 1>>
MacB == <<2, 0, 0, 0, 0, 2>>
EthFrame(dst_mac, src_mac, ether_type, payload) ==
    dst_mac \o src_mac \o <<ether_type \div 256, ether_type % 256>> \o payload
Ipv4Hdr(protocol, src, dst) ==
    <<69, 0, 0, 28, 0, 0, 0, 0, 64, protocol, 0, 0>> \o src \o dst
UdpHdr(sp, dp) == <<sp \div 256, sp % 256, dp \div 256, dp % 256, 0, 8, 0, 0>>

FrameAllowed ==
    EthFrame(MacB, MacA, 2048, Ipv4Hdr(17, <<10, 0, 0, 1>>, <<10, 0, 0, 2>>) \o UdpHdr(1000, 53))
FrameBlockedPort ==
    EthFrame(MacB, MacA, 2048, Ipv4Hdr(17, <<10, 0, 0, 1>>, <<10, 0, 0, 2>>) \o UdpHdr(1000, 2222))
FrameShortArp ==
    EthFrame(MacB, MacA, 2054, <<0, 1, 8, 0, 6, 4, 0, 1, 2, 0, 0, 0, 0, 1, 10, 0, 0, 1>>)
SampleFrames == {FrameAllowed, FrameBlockedPort, FrameShortArp}

\* ------------------------------------------------------------------------
\* src/db_write.rs : FIREWALL, PACKET_BUFFER, rdb_tunnel_packet_write,
\* start_packet_writer, process_packets;  src/packet_analysis.rs : handle_interface
\* ------------------------------------------------------------------------
MaxFrames == 2      \* frames the producer reads in a run
MaxTime == 1        \* last instant of this host's clock
CHUNK_SIZE == 1000

\* lazy_static FIREWALL: Blacklist with three rules
FIREWALL_rules ==
    add_rule(add_rule(add_rule(EmptyRules,
        IpAddressFilter(V4(160, 251, 175, 134)), 100),
        PortFilter(13432), 90),
        PortFilter(2222), 80)
FIREWALL_policy == "Blacklist"

\* FirewallPacket::new(...) built from the parsed record
firewall_packet_of(packet_data) ==
    FirewallPacket(packet_data.src_ip, packet_data.dst_ip,
                   packet_data.src_port, packet_data.dst_port,
                   IF packet_data.src_ip.ver = 4 THEN 4 ELSE 6)

\* a mutant of the push guard: the verdict is ignored
firewall_verdict_ignored(packet_data, order) == TRUE

\* `if FIREWALL.check(firewall_packet)`
firewall_verdict(packet_data, order) ==
    check(FIREWALL_rules, order, FIREWALL_policy, firewall_packet_of(packet_data))

\* a mutant of the drain: the batch is copied and the buffer keeps its frames
buffer_after_drain_kept(buffer) == buffer

\* what buffer.drain(..) leaves in the buffer
buffer_after_drain(buffer) == <<>>

\* a mutant of the chunking: a chunk runs one row over
next_chunk_overlong(packets, processed) ==
    SubSeq(packets, processed + 1,
           IF processed + CHUNK_SIZE + 1 < Len(packets) THEN processed + CHUNK_SIZE + 1
                                                        ELSE Len(packets))

\* packets.chunks(CHUNK_SIZE): the chunk that starts after `processed` rows
next_chunk(packets, processed) ==
    SubSeq(packets, processed + 1,
           IF processed + CHUNK_SIZE < Len(packets) THEN processed + CHUNK_SIZE ELSE Len(packets))

WriterIdle == [pc |-> "tick", packets |-> <<>>, processed |-> 0, tx |-> <<>>]
NoFlush == [result |-> "none", batch |-> <<>>, failed_row |-> None]

WrInit ==
    /\ now = 0
    /\ captured = <<>>
    /\ tasks = <<>>
    /\ PACKET_BUFFER = <<>>
    /\ pushOrder = <<>>
    /\ writer = WriterIdle
    /\ db_committed = <<>>
    /\ lastFlush = NoFlush

\* Utc::now() advances
ClockTick ==
    /\ now < MaxTime
    /\ now' = now + 1
    /\ UNCHANGED <<captured, tasks, PACKET_BUFFER, pushOrder, writer, db_committed, lastFlush, notWr>>
    /\ UNCHANGED wgVars

\* handle_interface: rx.next() yields a frame, a task is spawned for it
Capture ==
    \E frame \in SampleFrames :
        /\ Len(captured) < MaxFrames
        /\ captured' = Append(captured, frame)
        /\ tasks' = Append(tasks, [pc |-> "spawned", pd |-> None])
        /\ UNCHANGED <<now, PACKET_BUFFER, pushOrder, writer, db_committed, lastFlush, notWr>>
        /\ UNCHANGED wgVars

\* rdb_tunnel_packet_write up to the parsed record (timestamp = Utc::now())
TaskParse ==
    \E id \in 1..Len(tasks) :
        /\ tasks[id].pc = "spawned"
        /\ LET frame == captured[id]
               r == parse_and_analyze_packet(frame)
           IN tasks' = [tasks EXCEPT ![id] =
                  IF Len(frame) < 14 THEN [pc |-> "done", pd |-> None]
                  ELSE IF r.panic THEN [pc |-> "panicked", pd |-> None]
                  ELSE [pc |-> "parsed",
                        pd |-> [id |-> id, timestamp |-> now, src_mac |-> r.src_mac,
                                dst_mac |-> r.dst_mac, ether_type |-> r.ether_type,
                                src_ip |-> r.src_ip, dst_ip |-> r.dst_ip,
                                src_port |-> r.src_port, dst_port |-> r.dst_port,
                                ip_protocol |-> r.ip_protocol, data |-> r.data,
                                raw_packet |-> r.raw_packet]]]
        /\ UNCHANGED <<now, captured, PACKET_BUFFER, pushOrder, writer, db_committed, lastFlush, notWr>>
        /\ UNCHANGED wgVars

\* rdb_tunnel_packet_write: firewall check, then PACKET_BUFFER.lock().await.push
TaskPush ==
    \E id \in 1..Len(tasks), order \in Perms(DOMAIN FIREWALL_rules) :
        /\ tasks[id].pc = "parsed"
        /\ IF firewall_verdict(tasks[id].pd, order)
           THEN /\ buffer_lock = "free"
                /\ PACKET_BUFFER' = Append(PACKET_BUFFER, tasks[id].pd)
                /\ pushOrder' = Append(pushOrder, id)
           ELSE UNCHANGED <<PACKET_BUFFER, pushOrder>>
        /\ tasks' = [tasks EXCEPT ![id] = [pc |-> "done", pd |-> tasks[id].pd]]
        /\ UNCHANGED <<now, captured, writer, db_committed, lastFlush, notWr>>
        /\ UNCHANGED wgVars

\* a mutant of the drain block: the guard lives on into process_packets
lock_kept_after_drain(holder) == "writer"

\* the MutexGuard is dropped at the end of the block that drains
lock_after_drain(holder) == "free"

\* start_packet_writer: one interval tick; an empty buffer is a `continue`.
\* Nothing awaits between PACKET_BUFFER.lock() and the end of the block, so
\* lock, drain and unlock are one step.
WriterTick ==
    /\ writer.pc = "tick"
    /\ buffer_lock = "free"
    /\ PACKET_BUFFER # <<>>
    /\ writer' = [pc |-> "pool", packets |-> PACKET_BUFFER, processed |-> 0, tx |-> <<>>]
    /\ PACKET_BUFFER' = buffer_after_drain(PACKET_BUFFER)
    /\ buffer_lock' = lock_after_drain("writer")
    /\ drained' = drained + Len(PACKET_BUFFER)
    /\ inserts' = <<>>
    /\ lastFlush' = NoFlush
    /\ UNCHANGED <<now, captured, tasks, pushOrder, db_committed, bursts, notWr>>

\* the Err arm of `match process_packets(packets).await`: the error is logged,
\* the transaction (if any) is dropped and rolled back, the batch is dropped
flush_failed(w) == [result |-> "err", batch |-> w.packets, failed_row |-> None]

\* the same arm when transaction.execute failed on encoding a parameter of `row`
encode_failed(w, row) == [flush_failed(w) EXCEPT !.failed_row = Some(row.id)]

\* process_packets: db.pool.get().await?
WriterPoolGet ==
    /\ writer.pc = "pool"
    /\ \E ok \in BOOLEAN :
         IF ok THEN /\ writer' = [writer EXCEPT !.pc = "begin"]
                    /\ UNCHANGED lastFlush
         ELSE /\ writer' = WriterIdle
              /\ lastFlush' = flush_failed(writer)
    /\ UNCHANGED <<now, captured, tasks, PACKET_BUFFER, pushOrder, db_committed, notWr>>
    /\ UNCHANGED wgVars

\* process_packets: client.transaction().await?
WriterBegin ==
    /\ writer.pc = "begin"
    /\ \E ok \in BOOLEAN :
         IF ok THEN /\ writer' = [writer EXCEPT !.pc = "execute"]
                    /\ UNCHANGED lastFlush
         ELSE /\ writer' = WriterIdle
              /\ lastFlush' = flush_failed(writer)
    /\ UNCHANGED <<now, captured, tasks, PACKET_BUFFER, pushOrder, db_committed, notWr>>
    /\ UNCHANGED wgVars

\* a mutant of the chunk loop: the INSERT runs on the client, outside the
\* transaction, and its rows are committed at once
visible_autocommit(committed, chunk) == Append(committed, chunk)

\* what the table shows after transaction.execute: nothing new before commit
visible_after_execute(committed, chunk) == committed

\* what transaction.execute can answer: Ok, an error of the connection or the
\* server, or an error of ToSql while encoding the parameters of a row
ExecuteOutcomes == {"ok", "db_err", "encode_err"}

\* process_packets: one iteration of the chunk loop, transaction.execute(...).await?
WriterExecute ==
    /\ writer.pc = "execute"
    /\ \E outcome \in ExecuteOutcomes :
         LET chunk == next_chunk(writer.packets, writer.processed)
             done == writer.processed + Len(chunk)
         IN IF outcome = "ok"
            THEN /\ writer' = [writer EXCEPT !.tx = writer.tx \o chunk,
                                            !.processed = done,
                                            !.pc = IF done >= Len(writer.packets)
                                                   THEN "commit" ELSE "execute"]
                 /\ db_committed' = visible_after_execute(db_committed, chunk)
                 /\ inserts' = Append(inserts, Len(chunk))
                 /\ UNCHANGED lastFlush
            ELSE /\ writer' = WriterIdle
                 /\ lastFlush' = IF outcome = "encode_err"
                                 THEN encode_failed(writer, chunk[1])
                                 ELSE flush_failed(writer)
                 /\ UNCHANGED <<db_committed, inserts>>
    /\ UNCHANGED <<now, captured, tasks, PACKET_BUFFER, pushOrder, buffer_lock, drained,
                   bursts, notWr>>

\* process_packets: transaction.commit().await?
WriterCommit ==
    /\ writer.pc = "commit"
    /\ \E ok \in BOOLEAN :
         IF ok
         THEN /\ db_committed' = Append(db_committed, writer.tx)
              /\ lastFlush' = [result |-> "ok", batch |-> writer.packets, failed_row |-> None]
         ELSE /\ UNCHANGED db_committed
              /\ lastFlush' = flush_failed(writer)
    /\ writer' = WriterIdle
    /\ UNCHANGED <<now, captured, tasks, PACKET_BUFFER, pushOrder, notWr>>
    /\ UNCHANGED wgVars

WgInit ==
    /\ buffer_lock = "free"
    /\ drained = 0
    /\ inserts = <<>>
    /\ bursts = 0

MaxBursts == 2      \* bursts of pushes in a run
BurstSizes == {1, 1000, 7500}

\* n tasks of handle_interface get through rdb_tunnel_packet_write one after the
\* other, each with an accepted frame: n times `PACKET_BUFFER.lock().await.push`.
\* The writer never looks inside a PacketData; a burst frame keeps id and timestamp.
PushBurst ==
    /\ bursts < MaxBursts
    /\ buffer_lock = "free"
    /\ \E n \in BurstSizes :
         LET first == Len(pushOrder) + 1
             ids == [k \in 1..n |-> first + k - 1]
         IN /\ PACKET_BUFFER' = PACKET_BUFFER \o [k \in 1..n |-> [id |-> ids[k], timestamp |-> now]]
            /\ pushOrder' = pushOrder \o ids
    /\ bursts' = bursts + 1
    /\ UNCHANGED <<now, captured, tasks, writer, db_committed, lastFlush, notWr>>
    /\ UNCHANGED <<buffer_lock, drained, inserts>>

\* ------------------------------------------------------------------------
\* src/db_read.rs : PacketPoller
\* ------------------------------------------------------------------------
MaxRows == 2                    \* rows committed to the packets table in a run
MAX_PACKET_SIZE == 1500
FIRST_POLL_WINDOW == 30         \* INTERVAL '30 seconds'
LOOKBACK_WINDOW == 5            \* INTERVAL '5 seconds'

PollInstants == {10, 20, 45}    \* instants (s) at which the 1 s interval fires a poll
RowTimes == {5, 15, 20, 50}     \* capture timestamps (s), set by the writers' clocks

MyIp == V4(10, 0, 0, 2)
OtherIp == V4(10, 0, 0, 3)
BroadcastIp == V4(255, 255, 255, 255)
MulticastIp == V4(224, 0, 0, 1)
RowShapes ==
    { <<MyIp, 1500>>, <<MyIp, 1501>>, <<OtherIp, 1500>>,
      <<BroadcastIp, 1500>>, <<MulticastIp, 1500>> }

\* dst_ip << '224.0.0.0/4'  and  Ipv4Addr::is_multicast
in_multicast_v4(ip) == ip.ver = 4 /\ ip.octets[1] >= 224 /\ ip.octets[1] <= 239

\* PacketPoller::is_broadcast_ip
is_broadcast_ip(ip) ==
    IF ip.ver = 4
    THEN ip = BroadcastIp \/ in_multicast_v4(ip) \/ ip.octets = <<255, 255, 255, 255>>
    ELSE ip.octets[1] = 255

\* PacketPoller::should_process_packet
should_process_packet(packet, my_ip) ==
    packet.dst_ip = my_ip \/ is_broadcast_ip(packet.dst_ip)

\* a mutant of the time window: the non-first query compares with >=
time_window_inclusive(row, mode, ts, db_now) ==
    CASE mode = "first"    -> row.timestamp >= db_now - FIRST_POLL_WINDOW
      [] mode = "since"    -> row.timestamp >= ts[1]
      [] mode = "lookback" -> row.timestamp >= db_now - LOOKBACK_WINDOW

\* the timestamp condition of the three queries
time_window(row, mode, ts, db_now) ==
    CASE mode = "first"    -> row.timestamp >= db_now - FIRST_POLL_WINDOW
      [] mode = "since"    -> row.timestamp > ts[1]
      [] mode = "lookback" -> row.timestamp >= db_now - LOOKBACK_WINDOW

\* the WHERE clause of the three queries
sql_where(row, mode, ts, db_now, my_ip) ==
    /\ row.raw_len <= MAX_PACKET_SIZE
    /\ (row.dst_ip = my_ip \/ row.dst_ip = BroadcastIp \/ in_multicast_v4(row.dst_ip))
    /\ time_window(row, mode, ts, db_now)

\* ORDER BY timestamp ASC: every arrangement of the selected rows that is
\* ascending in timestamp (rows with equal timestamps come in any order)
order_by_timestamp(S) ==
    { s \in Perms(S) : \A i \in 1..(Len(s) - 1) : s[i].timestamp <= s[i + 1].timestamp }

\* the latest_timestamp fold of the row loop
RECURSIVE latest_timestamp(_, _, _)
latest_timestamp(rows, i, latest) ==
    IF i > Len(rows) THEN latest
    ELSE latest_timestamp(rows, i + 1,
             IF latest = None \/ latest[1] < rows[i].timestamp
             THEN Some(rows[i].timestamp) ELSE latest)

\* which query poll_packets builds
poll_mode(is_first, last_ts) ==
    IF is_first THEN "first" ELSE IF last_ts # None THEN "since" ELSE "lookback"

\* a mutant of the watermark update: the poll's own instant whatever was fetched
new_timestamp_now(rows, current_time) == current_time

\* `latest_timestamp.unwrap_or(current_time)`
new_timestamp(rows, current_time) ==
    LET latest == latest_timestamp(rows, 1, None)
    IN IF latest = None THEN current_time ELSE latest[1]

\* a mutant of the error arm: the watermark is forgotten
timestamp_cleared_on_error(last_ts, current_time) == None

\* a mutant of the error arm: the watermark is left as it was
timestamp_kept_on_error(last_ts, current_time) == last_ts

\* the Err arm of db.query: `*last_ts = Some(current_time)`
timestamp_on_error(last_ts, current_time) == Some(current_time)

NoPoll == [outcome |-> "none", first |-> FALSE, before |-> None, at |-> 0,
           visible |-> {}, returned |-> <<>>, earlier |-> {}]

PlInit ==
    /\ pnow = 0
    /\ db_rows = {}
    /\ last_timestamp = None
    /\ is_first_poll = TRUE
    /\ lastPoll = NoPoll
    /\ delivered = {}

\* some host's writer commits a row; its timestamp comes from that host's clock
CommitRow ==
    \E shape \in RowShapes, ts \in RowTimes :
        /\ Cardinality(db_rows) < MaxRows
        /\ db_rows' = db_rows \cup { [id |-> Cardinality(db_rows) + 1, timestamp |-> ts,
                                      dst_ip |-> shape[1], raw_len |-> shape[2]] }
        /\ UNCHANGED <<pnow, last_timestamp, is_first_poll, lastPoll, delivered, notPl>>

\* the body of PacketPoller::poll_packets: query, filter, watermark update
poll_packets ==
    \E current_time \in PollInstants, ok \in BOOLEAN :
        /\ current_time > pnow
        /\ pnow' = current_time
        /\ LET is_first == is_first_poll
               mode == poll_mode(is_first, last_timestamp)
               selected == { r \in db_rows :
                               sql_where(r, mode, last_timestamp, current_time, MyIp) }
           IN IF ~ok
              THEN /\ last_timestamp' = timestamp_on_error(last_timestamp, current_time)
                   /\ UNCHANGED <<is_first_poll, delivered>>
                   /\ lastPoll' = [outcome |-> "err", first |-> is_first,
                                   before |-> last_timestamp, at |-> current_time,
                                   visible |-> db_rows, returned |-> <<>>,
                                   earlier |-> delivered]
              ELSE \E rows \in order_by_timestamp(selected) :
                     LET packet_infos ==
                             SelectSeq(rows, LAMBDA r : should_process_packet(r, MyIp))
                         ids == { packet_infos[i].id : i \in 1..Len(packet_infos) }
                     IN /\ last_timestamp' = Some(new_timestamp(rows, current_time))
                        /\ is_first_poll' = IF is_first THEN FALSE ELSE is_first_poll
                        /\ delivered' = delivered \cup ids
                        /\ lastPoll' = [outcome |-> "ok", first |-> is_first,
                                        before |-> last_timestamp, at |-> current_time,
                                        visible |-> db_rows, returned |-> packet_infos,
                                        earlier |-> delivered]
        /\ UNCHANGED db_rows

\* PacketPoller::poll_packets, one call at the next interval tick
PollPackets ==
    /\ poll_packets
    /\ UNCHANGED notPl

\* ------------------------------------------------------------------------
\* src/db_read.rs : PacketPoller::poll_and_send_packets
\* ------------------------------------------------------------------------
\* what datalink::channel and tx.send_to can answer for one packet
SendOutcomes == {"channel_other", "channel_err", "send_ok", "send_err", "send_none"}

\* if packet.raw_packet.len() > 1500 { ... continue; }
skips_at_limit(packet) == packet.raw_len >= 1500
too_large(packet) == packet.raw_len > 1500

\* packets_sent.store(0) / packets_failed.store(0) after the loop
counter_kept(counter) == counter
counter_after_pass(counter) == 0

\* a mutant of the send-error arms: the rest of the pass is given up
queue_dropped_on_send_error(queue) == <<>>

\* Some(Err(e)) and None of tx.send_to: count the failure and `continue`
queue_after_send_error(queue) == Tail(queue)

InjIdle == [pc |-> "idle", queue |-> <<>>]
NoPass == [state |-> "none", polled |-> <<>>, attempts |-> <<>>, ok |-> 0, failed |-> 0,
           sent0 |-> 0, failed0 |-> 0, logged |-> None, cause |-> "none"]

InjInit ==
    /\ packets_sent = 0
    /\ packets_failed = 0
    /\ inj = InjIdle
    /\ pass = NoPass

\* the commit instants of the rows the send loop is exercised with
InjRowTimes == {15, 50}

\* some host's writer commits a row the injector will meet
StoreRow ==
    \E shape \in RowShapes, ts \in InjRowTimes :
        /\ Cardinality(db_rows) < MaxRows
        /\ db_rows' = db_rows \cup { [id |-> Cardinality(db_rows) + 1, timestamp |-> ts,
                                      dst_ip |-> shape[1], raw_len |-> shape[2]] }
        /\ UNCHANGED <<pnow, last_timestamp, is_first_poll, lastPoll, delivered, notPl>>

\* poll_and_send_packets up to the match on poll_packets().await
PassPoll ==
    /\ inj.pc = "idle"
    /\ poll_packets
    /\ pass' = [NoPass EXCEPT !.state = IF lastPoll'.outcome = "ok" THEN "running" ELSE "poll_err",
                              !.polled = lastPoll'.returned,
                              !.sent0 = packets_sent, !.failed0 = packets_failed]
    /\ inj' = IF lastPoll'.outcome = "ok"
              THEN [pc |-> "send", queue |-> lastPoll'.returned]
              ELSE InjIdle
    /\ UNCHANGED <<packets_sent, packets_failed, notInj>>

\* one iteration of  for packet in packets
PassSend ==
    /\ inj.pc = "send"
    /\ inj.queue # <<>>
    /\ LET packet == Head(inj.queue)
       IN IF too_large(packet)
          THEN /\ packets_failed' = packets_failed + 1
               /\ inj' = [inj EXCEPT !.queue = Tail(inj.queue)]
               /\ pass' = [pass EXCEPT !.failed = @ + 1]
               /\ UNCHANGED packets_sent
          ELSE \E outcome \in SendOutcomes :
                 CASE outcome \in {"channel_other", "channel_err"} ->
                        /\ inj' = InjIdle
                        /\ pass' = [pass EXCEPT !.state = "aborted", !.cause = outcome]
                        /\ UNCHANGED <<packets_sent, packets_failed>>
                   [] outcome = "send_ok" ->
                        /\ packets_sent' = packets_sent + 1
                        /\ inj' = [inj EXCEPT !.queue = Tail(inj.queue)]
                        /\ pass' = [pass EXCEPT !.attempts = Append(@, packet), !.ok = @ + 1]
                        /\ UNCHANGED packets_failed
                   [] OTHER ->
                        /\ packets_failed' = packets_failed + 1
                        /\ inj' = [inj EXCEPT !.queue = queue_after_send_error(inj.queue)]
                        /\ pass' = [pass EXCEPT !.attempts = Append(@, packet),
                                                !.failed = @ + 1]
                        /\ UNCHANGED packets_sent
    /\ UNCHANGED <<plVars, notInj>>

\* after the loop: log the two counters, reset them, return Ok(())
PassEnd ==
    /\ inj.pc = "send"
    /\ inj.queue = <<>>
    /\ pass' = [pass EXCEPT !.state = "done",
                            !.logged = Some(<<packets_sent, packets_failed>>)]
    /\ packets_sent' = counter_after_pass(packets_sent)
    /\ packets_failed' = counter_after_pass(packets_failed)
    /\ inj' = InjIdle
    /\ UNCHANGED <<plVars, notInj>>


\* ------------------------------------------------------------------------
\* src/db_write.rs : parse_and_analyze_packet over frames at the length limits
\* ------------------------------------------------------------------------
ParseLens == {13, 14, 27, 28, 41, 42, 53, 54, 55, 66}
ParseEtherTypes == {2048, 34525, 2054, 33024, 35020}
ParseVersions == {4, 6, 0}
ParseIhls == {5, 15}
ParseProtocols == {6, 17, 1}
ParseDataOffsets == {5, 15}

\* byte i (from 0) of a frame: MACs, EtherType, version/IHL at 14, next header
\* at 20, protocol at 23, TCP data offset at 46, filler elsewhere
frame_byte(i, ether_type, version, ihl, protocol, data_offset) ==
    CASE i < 6 -> MacB[i + 1]
      [] i >= 6 /\ i < 12 -> MacA[i - 5]
      [] i = 12 -> ether_type \div 256
      [] i = 13 -> ether_type % 256
      [] i = 14 -> version * 16 + ihl
      [] i = 20 \/ i = 23 -> protocol
      [] i = 46 -> data_offset * 16
      [] OTHER -> 7

BoundaryFrame(len, ether_type, version, ihl, protocol, data_offset) ==
    [ i \in 1..len |-> frame_byte(i - 1, ether_type, version, ihl, protocol, data_offset) ]

BoundaryFrames ==
    { BoundaryFrame(len, et, v, ihl, pr, off) :
        len \in ParseLens, et \in ParseEtherTypes, v \in ParseVersions,
        ihl \in ParseIhls, pr \in ParseProtocols, off \in ParseDataOffsets }

\* one 802.1Q tag (TPID 0x8100, TCI) pushed in front of the frame's EtherType
vlan_tag(frame) == Slice(frame, 0, 12) \o <<129, 0, 0, 1>> \o Slice(frame, 12, Len(frame))

MaxVlanTags == 6
RECURSIVE VlanFrame(_)
VlanFrame(d) == IF d = 0 THEN FrameAllowed ELSE vlan_tag(VlanFrame(d - 1))
VlanFrames == { VlanFrame(d) : d \in 0..MaxVlanTags }

ParseFrames == BoundaryFrames \cup VlanFrames

PfIdle ==
    /\ pf_frame = <<>>
    /\ pf_result = None

\* a frame arrives from the capture channel
ParseInit ==
    /\ pf_frame \in ParseFrames
    /\ pf_result = None

\* parse_and_analyze_packet(ethernet_packet)
ParsePacket ==
    /\ pf_result = None
    /\ pf_result' = Some(parse_and_analyze_packet(pf_frame))
    /\ UNCHANGED <<pf_frame, notPf>>

\* ------------------------------------------------------------------------
\* src/host_idps/ip_reassembly.rs : IpReassembler
\* ------------------------------------------------------------------------
MaxFragments == 4
REASSEMBLY_TIMEOUT == 30
cleanup_interval == 60
max_buffers == 5000
CLEANUP_EVERY == 1000

\* (src_ip, dst_ip, identification)
RaKeys == { <<V4(10, 0, 0, 1), V4(10, 0, 0, 2), 43981>>,
            <<V4(10, 0, 0, 1), V4(10, 0, 0, 2), 43982>> }

\* the fragments of one datagram: flags_fragment_offset and payload
FragmentHeader(more, offset) == (IF more THEN 8192 ELSE 0) + offset \div 8
Frag0 == [flags_fragment_offset |-> FragmentHeader(TRUE, 0),
          payload |-> <<10, 11, 12, 13, 14, 15, 16, 17>>]
Frag1 == [flags_fragment_offset |-> FragmentHeader(TRUE, 8),
          payload |-> <<20, 21, 22, 23, 24, 25, 26, 27>>]
Frag2 == [flags_fragment_offset |-> FragmentHeader(FALSE, 16),
          payload |-> <<30, 31, 32, 33>>]
RaFragments == {Frag0, Frag1, Frag2}
RaSteps == {0, 20}

\* (flags_fragment_offset & 0x1FFF) * 8  and  (flags_fragment_offset & 0x2000) != 0
fragment_offset(fo) == ((fo % 8192) * 8) % 65536
more_fragments(fo) == (fo \div 8192) % 2 = 1

IpFragment(hdr_fo, payload) ==
    [data |-> payload, offset |-> fragment_offset(hdr_fo), more_fragments |-> more_fragments(hdr_fo)]

\* fragments.sort_by_key(|f| f.offset), a stable sort
RECURSIVE insert_by_offset(_, _)
insert_by_offset(sorted, f) ==
    IF sorted = <<>> THEN <<f>>
    ELSE IF Head(sorted).offset <= f.offset
         THEN <<Head(sorted)>> \o insert_by_offset(Tail(sorted), f)
         ELSE <<f>> \o sorted
RECURSIVE sort_by_offset(_)
sort_by_offset(frags) ==
    IF frags = <<>> THEN <<>>
    ELSE insert_by_offset(sort_by_offset(SubSeq(frags, 1, Len(frags) - 1)), frags[Len(frags)])

\* the for loop of try_reassemble: [complete, reassembled]
RECURSIVE walk(_, _, _)
walk(frags, expected_offset, reassembled) ==
    IF frags = <<>> THEN [complete |-> TRUE, reassembled |-> reassembled]
    ELSE LET fragment == Head(frags) IN
         IF fragment.offset # expected_offset
         THEN [complete |-> FALSE, reassembled |-> reassembled]
         ELSE IF ~fragment.more_fragments
              THEN [complete |-> TRUE, reassembled |-> reassembled \o fragment.data]
              ELSE walk(Tail(frags),
                        (fragment.offset + Len(fragment.data)) % 65536,
                        reassembled \o fragment.data)

\* buffers.retain(|_, buffer| now.duration_since(buffer.last_activity) < timeout)
retain_fresh(bufs, t) ==
    LET keep == { k \in DOMAIN bufs : t - bufs[k].last_activity < REASSEMBLY_TIMEOUT }
    IN [ k \in keep |-> bufs[k] ]

\* drain, sort_by_key(last_activity), truncate(max_buffers): the key sets that can
\* survive (the drain order of the map decides among equal last_activity)
truncate_sorted(bufs, max) ==
    { S \in SUBSET DOMAIN bufs :
        /\ Cardinality(S) = max
        /\ \A k \in S, j \in (DOMAIN bufs) \ S :
              bufs[k].last_activity <= bufs[j].last_activity }

\* IpReassembler::cleanup: the maps it can leave
cleanup(bufs, t, max) ==
    LET fresh == retain_fresh(bufs, t)
    IN IF Cardinality(DOMAIN fresh) > max
       THEN { [ k \in S |-> fresh[k] ] : S \in truncate_sorted(fresh, max) }
       ELSE { fresh }

\* the condition of cleanup_if_needed
cleanup_needed(bufs, t, last, processed) ==
    \/ t - last >= cleanup_interval
    \/ Cardinality(DOMAIN bufs) > max_buffers
    \/ processed % CLEANUP_EVERY = 0

NoCall == [key |-> None, fragment |-> None, walked |-> <<>>, result |-> None]

RaInit ==
    /\ ra_now = 0
    /\ buffers = << >>
    /\ last_cleanup = 0
    /\ packets_processed = 0
    /\ ra_last = NoCall
    /\ ra_arrived = [ k \in RaKeys |-> <<>> ]
    /\ ra_emitted = [ k \in RaKeys |-> <<>> ]
    /\ ra_evicted = {}
    /\ ra_last_arrival = [ k \in RaKeys |-> None ]
    /\ ra_timed_out = {}

\* the process_packet calls so far
ArrivedCount ==
    Cardinality({ ki \in RaKeys \X (1..MaxFragments) : ki[2] <= Len(ra_arrived[ki[1]]) })

\* IpReassembler::process_packet(ip_header, payload), cleanup_if_needed and
\* try_reassemble included
RaProcessPacket ==
    \E key \in RaKeys, input \in RaFragments, dt \in RaSteps :
        /\ ArrivedCount < MaxFragments
        /\ ra_now' = ra_now + dt
        /\ LET t == ra_now + dt
               processed == packets_processed + 1
               fragment == IpFragment(input.flags_fragment_offset, input.payload)
               needed == cleanup_needed(buffers, t, last_cleanup, processed)
           IN \E cleaned \in (IF needed THEN cleanup(buffers, t, max_buffers) ELSE {buffers}) :
                LET entry == IF key \in DOMAIN cleaned THEN cleaned[key]
                             ELSE [fragments |-> <<>>, total_length |-> 0, last_activity |-> t]
                    pushed == Append(entry.fragments, fragment)
                    sorted == sort_by_offset(pushed)
                    w == walk(sorted, 0, <<>>)
                    kept == [ k \in (DOMAIN cleaned) \cup {key} |->
                                IF k = key THEN [entry EXCEPT !.fragments = sorted]
                                ELSE cleaned[k] ]
                IN /\ last_cleanup' = IF needed THEN t ELSE last_cleanup
                   /\ packets_processed' = IF needed THEN 0 ELSE processed
                   /\ buffers' = IF w.complete
                                 THEN [ k \in (DOMAIN kept) \ {key} |-> kept[k] ]
                                 ELSE kept
                   /\ ra_last' = [key |-> Some(key), fragment |-> Some(fragment),
                                  walked |-> sorted,
                                  result |-> IF w.complete THEN Some(w.reassembled) ELSE None]
                   /\ ra_arrived' = [ra_arrived EXCEPT ![key] = Append(@, fragment)]
                   /\ ra_emitted' = IF w.complete
                                    THEN [ra_emitted EXCEPT ![key] = Append(@, w.reassembled)]
                                    ELSE ra_emitted
                   /\ ra_evicted' = ra_evicted \cup ((DOMAIN buffers) \ (DOMAIN cleaned))
                   /\ ra_last_arrival' = [ra_last_arrival EXCEPT ![key] = Some(t)]
                   /\ ra_timed_out' = ra_timed_out \cup
                          { [key |-> k, at |-> t, last_arrival |-> ra_last_arrival[k][1]] :
                              k \in IF needed
                                    THEN (DOMAIN buffers) \ (DOMAIN retain_fresh(buffers, t))
                                    ELSE {} }
        /\ UNCHANGED notRa

\* ------------------------------------------------------------------------
\* src/host_ids : tcp_header.rs, tcp_stream.rs, packet_processor.rs,
\*                packet_analysis.rs
\* ------------------------------------------------------------------------
MaxUpdates == 5
MaxTcTime == 602

\* u32 values as two 16-bit halves (hi * 65536 + lo)
HALF == 65536
u32(n) == [hi |-> (n \div HALF) % HALF, lo |-> n % HALF]
U32_MAX == [hi |-> HALF - 1, lo |-> HALF - 1]
\* x.wrapping_add(n) for n < 65536
wrapping_add(x, n) ==
    [hi |-> (x.hi + (x.lo + n) \div HALF) % HALF, lo |-> (x.lo + n) % HALF]
\* b.wrapping_sub(a) < 2^31: b is a or ahead of a in sequence space
seq_not_behind(a, b) ==
    LET borrow == IF b.lo < a.lo THEN 1 ELSE 0
    IN ((b.hi - a.hi - borrow) % HALF) < HALF \div 2

TCP_FIN == 1
TCP_SYN == 2
TCP_RST == 4
TCP_PSH == 8
TCP_ACK == 16
TIME_WAIT_SECS == 120
FLOW_IDLE_SECS == 300
DEFAULT_MSS == 1460

\* flags & bit != 0
has_flag(flags, bit) == (flags \div bit) % 2 = 1

\* parse_tcp_options: "some" with the MSS, "none", or "hang" when a zero option
\* length keeps i where it is
RECURSIVE parse_tcp_options_from(_, _)
parse_tcp_options_from(data, i) ==
    IF ~(i < Len(data)) THEN [res |-> "none"]
    ELSE CASE At(data, i) = 0 -> [res |-> "none"]
           [] At(data, i) = 1 -> parse_tcp_options_from(data, i + 1)
           [] At(data, i) = 2 /\ Len(data) >= i + 4 ->
                [res |-> "some", mss |-> be16(At(data, i + 2), At(data, i + 3))]
           [] OTHER ->
                IF Len(data) > i + 1
                THEN IF At(data, i + 1) = 0 THEN [res |-> "hang"]
                     ELSE parse_tcp_options_from(data, i + At(data, i + 1))
                ELSE [res |-> "none"]
parse_tcp_options(data) == parse_tcp_options_from(data, 0)

\* TcpStream::new(client_init_seq, server_init_seq) at instant t
TcpStream_new(client_init_seq, server_init_seq, t) ==
    [state |-> "SynSent",
     client_init_seq |-> client_init_seq, server_init_seq |-> server_init_seq,
     client_next_seq |-> wrapping_add(client_init_seq, 1), server_next_seq |-> server_init_seq,
     client_data |-> <<>>, server_data |-> <<>>, last_activity |-> t,
     client_window |-> 0, server_window |-> 0,
     client_mss |-> DEFAULT_MSS, server_mss |-> DEFAULT_MSS,
     client_cwnd |-> 1, server_cwnd |-> 1]

\* TcpStream::set_mss
set_mss(stream, is_client, mss) ==
    IF is_client THEN [stream EXCEPT !.client_mss = mss]
    ELSE [stream EXCEPT !.server_mss = mss]

\* the match (self.state, flags) of TcpStream::update; elapsed is
\* Instant::now().duration_since(self.last_activity)
next_state_kept(state, flags, elapsed) == state
next_state(state, flags, elapsed) ==
    CASE state = "Listen" /\ flags = TCP_SYN -> "SynReceived"
      [] state = "SynSent" /\ has_flag(flags, TCP_SYN) /\ has_flag(flags, TCP_ACK) -> "Established"
      [] state = "SynReceived" /\ flags = TCP_ACK -> "Established"
      [] state = "Established" /\ flags = TCP_FIN -> "FinWait1"
      [] state = "FinWait1" ->
            IF has_flag(flags, TCP_ACK) /\ ~has_flag(flags, TCP_FIN) THEN "FinWait2"
            ELSE IF has_flag(flags, TCP_FIN) /\ has_flag(flags, TCP_ACK) THEN "TimeWait"
            ELSE "FinWait1"
      [] state = "FinWait2" /\ flags = TCP_ACK -> "TimeWait"
      [] state = "CloseWait" /\ flags = TCP_FIN -> "LastAck"
      [] state = "LastAck" /\ flags = TCP_ACK -> "Closed"
      [] state = "TimeWait" /\ elapsed > TIME_WAIT_SECS -> "Closed"
      [] OTHER -> state

\* a mutant of the TimeWait guard: the time since the previous segment
elapsed_since_previous(stream, touched, t) == t - stream.last_activity

\* Instant::now().duration_since(self.last_activity) in the TimeWait guard, read
\* after `self.last_activity = Instant::now()`
elapsed_in_match(stream, touched, t) == t - touched.last_activity

\* TcpStream::update(is_from_client, seq, ack, flags, data, window) at instant t
update(stream, is_from_client, seq, ack, flags, data, window, t) ==
    LET touched == [stream EXCEPT !.last_activity = t]
        moved ==
            IF is_from_client
            THEN LET a == IF seq = touched.client_next_seq
                          THEN [touched EXCEPT
                                  !.client_data = @ \o data,
                                  !.client_next_seq = wrapping_add(@, Len(data))]
                          ELSE touched
                     b == IF has_flag(flags, TCP_ACK)
                          THEN [a EXCEPT !.server_next_seq = ack] ELSE a
                 IN [b EXCEPT !.client_window = window, !.client_cwnd = @ + 1]
            ELSE LET a == IF seq = touched.server_next_seq
                          THEN [touched EXCEPT
                                  !.server_data = @ \o data,
                                  !.server_next_seq = wrapping_add(@, Len(data))]
                          ELSE touched
                     b == IF has_flag(flags, TCP_ACK)
                          THEN [a EXCEPT !.client_next_seq = ack] ELSE a
                 IN [b EXCEPT !.server_window = window, !.server_cwnd = @ + 1]
    IN [moved EXCEPT !.state = next_state(moved.state, flags,
                                         elapsed_in_match(stream, moved, t))]

\* the MSS the option bytes carry: payload[..options_end] when the payload is
\* long enough
mss_option(tcp_header, payload) ==
    LET doff == tcp_header.data_offset * 4
        options_end == IF doff >= 20 THEN doff - 20 ELSE 0
    IN IF Len(payload) >= options_end
       THEN parse_tcp_options(SubSeq(payload, 1, options_end))
       ELSE [res |-> "none"]

\* process_tcp_data: the flow table after the segment, with the flow it met
process_tcp_data(strs, ip_header, tcp_header, payload, t) ==
    LET stream_key == <<ip_header.src_ip, tcp_header.src_port,
                        ip_header.dst_ip, tcp_header.dst_port>>
        reverse_key == <<ip_header.dst_ip, tcp_header.dst_port,
                         ip_header.src_ip, tcp_header.src_port>>
        is_from_client == IF stream_key \in DOMAIN strs THEN TRUE
                          ELSE IF reverse_key \in DOMAIN strs THEN FALSE
                          ELSE TRUE
        opt == mss_option(tcp_header, payload)
        created ==
            IF stream_key \notin DOMAIN strs /\ reverse_key \notin DOMAIN strs
               /\ has_flag(tcp_header.flags, TCP_SYN)
            THEN LET new_stream == TcpStream_new(tcp_header.seq_num, u32(0), t)
                     with_mss == IF opt.res = "some" THEN set_mss(new_stream, TRUE, opt.mss)
                                 ELSE new_stream
                 IN [ k \in (DOMAIN strs) \cup {stream_key} |->
                        IF k = stream_key THEN with_mss ELSE strs[k] ]
            ELSE strs
        key == IF is_from_client THEN stream_key ELSE reverse_key
    IN IF key \notin DOMAIN created
       THEN [streams |-> created, key |-> key, is_from_client |-> is_from_client,
             before |-> None, after |-> None]
       ELSE LET stream == created[key]
                with_mss == IF has_flag(tcp_header.flags, TCP_SYN) /\ ~is_from_client
                               /\ opt.res = "some"
                            THEN set_mss(stream, FALSE, opt.mss) ELSE stream
                updated == update(with_mss, is_from_client, tcp_header.seq_num,
                                  tcp_header.ack_num, tcp_header.flags, payload,
                                  tcp_header.window, t)
            IN [streams |-> IF updated.state = "Closed"
                            THEN [ k \in (DOMAIN created) \ {key} |-> created[k] ]
                            ELSE [created EXCEPT ![key] = updated],
                key |-> key, is_from_client |-> is_from_client,
                before |-> Some(stream), after |-> Some(updated)]

\* streams.retain(|_, s| s.last_activity.elapsed() < 300 s || s.state != Closed)
retained(stream, t) ==
    t - stream.last_activity < FLOW_IDLE_SECS \/ stream.state # "Closed"
retain(strs, t) ==
    [ k \in { j \in DOMAIN strs : retained(strs[j], t) } |-> strs[k] ]

\* ---- the packets of SpecTcp: one pair of endpoints, and one UDP packet ----
HostA == V4(10, 0, 0, 1)
HostB == V4(10, 0, 0, 2)
TcpPacket(from_a, seq, ack, flags, payload) ==
    [protocol |-> 6,
     src_ip |-> IF from_a THEN HostA ELSE HostB, dst_ip |-> IF from_a THEN HostB ELSE HostA,
     src_port |-> IF from_a THEN 1000 ELSE 80, dst_port |-> IF from_a THEN 80 ELSE 1000,
     seq_num |-> u32(seq), ack_num |-> u32(ack), data_offset |-> 5, flags |-> flags,
     window |-> 1024, payload |-> payload]
UdpPacket == [TcpPacket(TRUE, 0, 0, 0, <<>>) EXCEPT !.protocol = 17]

Handshake ==
    << TcpPacket(TRUE, 100, 0, TCP_SYN, <<>>),
       TcpPacket(FALSE, 500, 101, TCP_SYN + TCP_ACK, <<>>),
       TcpPacket(TRUE, 101, 501, TCP_ACK, <<>>) >>

TcPackets ==
    Range(Handshake) \cup
    { TcpPacket(TRUE, 101, 501, TCP_PSH + TCP_ACK, <<65>>),
      TcpPacket(FALSE, 501, 101, TCP_ACK, <<66>>),
      TcpPacket(TRUE, 101, 0, TCP_FIN, <<>>),
      TcpPacket(TRUE, 101, 501, TCP_FIN + TCP_ACK, <<>>),
      TcpPacket(FALSE, 501, 102, TCP_ACK, <<>>),
      [TcpPacket(FALSE, 501, 0, TCP_ACK, <<>>) EXCEPT !.ack_num = U32_MAX],
      [TcpPacket(TRUE, 0, 501, TCP_PSH + TCP_ACK, <<65>>) EXCEPT !.seq_num = U32_MAX],
      UdpPacket }
TcSteps == {0, 301}

NoPacket == [packet |-> None, key |-> None, is_from_client |-> FALSE,
             before |-> None, after |-> None, at |-> 0]

TcInit ==
    /\ tc_now = 0
    /\ streams = << >>
    /\ tc_last = NoPacket
    /\ tc_scenario = 0

\* the updates a flow has seen (each one adds 1 to one of its cwnd counters)
updates_of(stream) == stream.client_cwnd + stream.server_cwnd - 2

\* one iteration of the capture loop of packet_analysis: the next packet,
\* process_packet on it, then the retain over the flow table
TcIteration ==
    \E packet \in TcPackets, dt \in TcSteps :
        /\ tc_now + dt <= MaxTcTime
        /\ \A k \in DOMAIN streams : updates_of(streams[k]) < MaxUpdates
        /\ mss_option(packet, packet.payload).res # "hang"
        /\ tc_now' = tc_now + dt
        /\ LET t == tc_now + dt
               r == IF packet.protocol # 6
                    THEN [streams |-> streams, key |-> None, is_from_client |-> FALSE,
                          before |-> None, after |-> None]
                    ELSE LET d == process_tcp_data(streams, packet, packet, packet.payload, t)
                         IN [d EXCEPT !.key = Some(d.key)]
           IN /\ streams' = retain(r.streams, t)
              /\ tc_last' = [packet |-> Some(packet), key |-> r.key,
                             is_from_client |-> r.is_from_client,
                             before |-> r.before, after |-> r.after, at |-> t]
        /\ tc_scenario' = IF tc_scenario \in 0..(Len(Handshake) - 1)
                             /\ packet = Handshake[tc_scenario + 1]
                          THEN tc_scenario + 1 ELSE -1
        /\ UNCHANGED notTc

\* ------------------------------------------------------------------------
\* src/main.rs, src/core/tunnel.rs : the two pipelines, shutdown;
\* the loops of start_packet_writer and inject_packet as tasks of their own
\* ------------------------------------------------------------------------
notPp == <<fwVars, wrVars, plVars, injVars, pfVars, raVars, tcVars, cfVars, secVars, wgVars, clVars, optVars>>

MaxFetched == 1     \* packets one fetch_for_self returns, at most

AppAt(pc) == [pc |-> pc, cause |-> "none"]
AppExit1(cause) == [pc |-> "exit1", cause |-> cause]

\* run_application at its select!: PacketPipeline::new has set running, the
\* signal handler is installed, pipeline.start() has created both futures
PpInit ==
    /\ signal = FALSE
    /\ running = TRUE
    /\ app = AppAt("select")
    /\ receive_task = "check"
    /\ transmit_task = [pc |-> "check", left |-> 0]
    /\ writer_loop = "tick"
    /\ inject_loop = "start"
    /\ recovered = {}

\* a future that select! or try_join! drops stops where it is
dropped(pc) == IF pc \in {"returned", "failed"} THEN pc ELSE "dropped"

\* tokio::try_join!(receive_task, transmit_task)? inside the first select! arm:
\* where run_application stands after a poll that left the tasks at rx and tx
start_poll(rx, tx) ==
    IF rx = "failed" \/ tx = "failed" THEN AppExit1("Store")
    ELSE IF rx = "returned" /\ tx = "returned" THEN AppAt("exit0")
    ELSE AppAt("select")

\* setup_signal_handler: the spawned task gets SIGINT and sends on the channel
SignalHandler ==
    /\ app.pc = "select"
    /\ ~signal
    /\ signal' = TRUE
    /\ UNCHANGED <<running, app, receive_task, transmit_task, writer_loop,
                   inject_loop, recovered>>
    /\ UNCHANGED notPp

\* the second select! arm: pipeline.start() is dropped, then pipeline.stop()
AppShutdown ==
    /\ app.pc = "select"
    /\ signal
    /\ receive_task' = dropped(receive_task)
    /\ transmit_task' = [transmit_task EXCEPT !.pc = dropped(@)]
    /\ running' = FALSE
    /\ app' = AppAt("exit0")
    /\ UNCHANGED <<signal, writer_loop, inject_loop, recovered>>
    /\ UNCHANGED notPp

\* one step of start_receive_pipeline, from await to await
receive_step(pc, outcome) ==
    CASE pc = "check"    -> IF running THEN "capture" ELSE "returned"
      [] pc = "capture"  -> IF outcome THEN "analyze" ELSE "backoff"
      [] pc = "backoff"  -> "check"
      [] pc = "analyze"  -> IF outcome THEN "firewall" ELSE "check"
      [] pc = "firewall" -> IF outcome THEN "store" ELSE "check"
      [] pc = "store"    -> IF outcome THEN "check" ELSE "failed"

ReceiveStep ==
    /\ app.pc = "select"
    /\ receive_task \in {"check", "capture", "backoff", "analyze", "firewall", "store"}
    /\ \E outcome \in BOOLEAN :
         /\ receive_task' = receive_step(receive_task, outcome)
         /\ recovered' = IF receive_task = "capture" /\ ~outcome
                         THEN recovered \cup {"capture"} ELSE recovered
    /\ app' = start_poll(receive_task', transmit_task.pc)
    /\ transmit_task' = IF app'.pc = "exit1"
                        THEN [transmit_task EXCEPT !.pc = dropped(@)]
                        ELSE transmit_task
    /\ UNCHANGED <<signal, running, writer_loop, inject_loop>>
    /\ UNCHANGED notPp

\* one step of start_transmit_pipeline, from await to await
TransmitCheck ==
    /\ app.pc = "select"
    /\ transmit_task.pc = "check"
    /\ transmit_task' = [transmit_task EXCEPT !.pc = IF running THEN "fetch" ELSE "returned"]
    /\ app' = start_poll(receive_task, transmit_task'.pc)
    /\ UNCHANGED <<signal, running, receive_task, writer_loop, inject_loop, recovered>>
    /\ UNCHANGED notPp

TransmitFetch ==
    /\ app.pc = "select"
    /\ transmit_task.pc = "fetch"
    /\ \E ok \in BOOLEAN, n \in 0..MaxFetched :
         /\ transmit_task' = IF ok /\ n > 0 THEN [pc |-> "inject", left |-> n]
                             ELSE [pc |-> "sleep", left |-> 0]
         /\ recovered' = IF ok THEN recovered ELSE recovered \cup {"fetch"}
    /\ UNCHANGED <<signal, running, app, receive_task, writer_loop, inject_loop>>
    /\ UNCHANGED notPp

TransmitInject ==
    /\ app.pc = "select"
    /\ transmit_task.pc = "inject"
    /\ \E ok \in BOOLEAN :
         recovered' = IF ok THEN recovered ELSE recovered \cup {"inject"}
    /\ transmit_task' = IF transmit_task.left > 1
                        THEN [transmit_task EXCEPT !.left = @ - 1]
                        ELSE [pc |-> "sleep", left |-> 0]
    /\ UNCHANGED <<signal, running, app, receive_task, writer_loop, inject_loop>>
    /\ UNCHANGED notPp

TransmitSleep ==
    /\ app.pc = "select"
    /\ transmit_task.pc = "sleep"
    /\ transmit_task' = [transmit_task EXCEPT !.pc = "check"]
    /\ UNCHANGED <<signal, running, app, receive_task, writer_loop, inject_loop, recovered>>
    /\ UNCHANGED notPp

\* start_packet_writer: interval tick and drain; an empty buffer is `continue`
WriterLoopTick ==
    /\ writer_loop = "tick"
    /\ \E empty \in BOOLEAN :
         writer_loop' = IF empty THEN "tick" ELSE "process"
    /\ UNCHANGED <<signal, running, app, receive_task, transmit_task, inject_loop, recovered>>
    /\ UNCHANGED notPp

\* start_packet_writer: process_packets(packets).await, Err is logged
WriterLoopProcess ==
    /\ writer_loop = "process"
    /\ \E ok \in BOOLEAN :
         recovered' = IF ok THEN recovered ELSE recovered \cup {"flush"}
    /\ writer_loop' = "tick"
    /\ UNCHANGED <<signal, running, app, receive_task, transmit_task, inject_loop>>
    /\ UNCHANGED notPp

\* inject_packet: the IPv4 address of the interface, or DeviceError
InjectLoopStart ==
    /\ inject_loop = "start"
    /\ \E has_ipv4 \in BOOLEAN :
         inject_loop' = IF has_ipv4 THEN "tick" ELSE "failed"
    /\ UNCHANGED <<signal, running, app, receive_task, transmit_task, writer_loop, recovered>>
    /\ UNCHANGED notPp

InjectLoopTick ==
    /\ inject_loop = "tick"
    /\ inject_loop' = "poll"
    /\ UNCHANGED <<signal, running, app, receive_task, transmit_task, writer_loop, recovered>>
    /\ UNCHANGED notPp

\* inject_packet: poll_and_send_packets().await, Err is logged
InjectLoopPoll ==
    /\ inject_loop = "poll"
    /\ \E ok \in BOOLEAN :
         recovered' = IF ok THEN recovered ELSE recovered \cup {"poll"}
    /\ inject_loop' = "tick"
    /\ UNCHANGED <<signal, running, app, receive_task, transmit_task, writer_loop>>
    /\ UNCHANGED notPp

\* ------------------------------------------------------------------------
\* src/core/config.rs : Configuration::from_env
\* Strings are sequences of characters, so that parsing is computed.
\* ------------------------------------------------------------------------
notCf == <<fwVars, wrVars, plVars, injVars, pfVars, raVars, tcVars, ppVars, secVars, wgVars, clVars, optVars>>

Ok(v) == [ok |-> TRUE, val |-> v]
Err(e) == [ok |-> FALSE, err |-> e]

\* an OsString: valid Unicode text, or bytes that are not
OsStr(text) == [unicode |-> TRUE, text |-> text]
NotUnicodeBytes == [unicode |-> FALSE, text |-> <<>>]

\* std::env::var(key) : Result<String, VarError>
env_var(env, key) ==
    IF env[key] = None THEN Err("NotPresent")
    ELSE IF ~env[key][1].unicode THEN Err("NotUnicode")
    ELSE Ok(env[key][1].text)

\* .unwrap_or_else(|_| default)
unwrap_or_else(r, default) == IF r.ok THEN r.val ELSE default

U16_MAX == 65535
U8_MAX == 255
DecimalDigits == <<"0", "1", "2", "3", "4", "5", "6", "7", "8", "9">>
is_digit(c) == \E d \in 1..10 : DecimalDigits[d] = c
digit_value(c) == (CHOOSE d \in 1..10 : DecimalDigits[d] = c) - 1

\* the checked digit loop of <uN as FromStr>: -1 for InvalidDigit or PosOverflow
RECURSIVE parse_digits(_, _, _, _)
parse_digits(s, i, acc, max) ==
    IF i > Len(s) THEN acc
    ELSE IF ~is_digit(s[i]) THEN -1
    ELSE LET v == acc * 10 + digit_value(s[i])
         IN IF v > max THEN -1 ELSE parse_digits(s, i + 1, v, max)

\* str::parse::<u16>() : empty is an error, one leading '+' is accepted
parse_u16(s) ==
    LET digits == IF s # <<>> /\ s[1] = "+" THEN Tail(s) ELSE s
        v == parse_digits(digits, 1, 0, U16_MAX)
    IN IF digits = <<>> \/ v < 0 THEN Err("ParseIntError") ELSE Ok(v)

\* the text of s from position i up to the next '.' or the end
RECURSIVE octet_text(_, _)
octet_text(s, i) ==
    IF i > Len(s) \/ s[i] = "." THEN <<>> ELSE <<s[i]>> \o octet_text(s, i + 1)

\* str::parse::<IpAddr>() on a dotted quad: four octets of 1 to 3 digits, each
\* at most 255, nothing after the fourth (the sampled values hold no ':')
RECURSIVE parse_octets(_, _, _)
parse_octets(s, i, n) ==
    LET t == octet_text(s, i)
        v == parse_digits(t, 1, 0, U8_MAX)
        next == i + Len(t)
    IN IF t = <<>> \/ Len(t) > 3 \/ v < 0 THEN <<-1>>
       ELSE IF n = 4 THEN (IF next > Len(s) THEN <<v>> ELSE <<-1>>)
       ELSE IF next > Len(s) THEN <<-1>>
       ELSE <<v>> \o parse_octets(s, next + 1, n + 1)

parse_ip_addr(s) ==
    LET o == parse_octets(s, 1, 1)
    IN IF \E i \in 1..Len(o) : o[i] < 0 THEN Err("AddrParseError") ELSE Ok(V4(o[1], o[2], o[3], o[4]))

Config(msg) == [kind |-> "Config", msg |-> msg]

\* Configuration::from_env, field by field in source order; `?` returns the
\* first error
from_env(env) ==
    LET interface   == unwrap_or_else(env_var(env, "NETWORK_INTERFACE"), <<"e", "t", "h", "0">>)
        listen_addr == parse_ip_addr(unwrap_or_else(env_var(env, "LISTEN_ADDR"),
                                                    <<"0", ".", "0", ".", "0", ".", "0">>))
        listen_port == parse_u16(unwrap_or_else(env_var(env, "LISTEN_PORT"),
                                                <<"8", "0", "0", "0">>))
        host        == env_var(env, "DB_HOST")
        port        == parse_u16(unwrap_or_else(env_var(env, "DB_PORT"),
                                                <<"5", "4", "3", "2">>))
        username    == env_var(env, "DB_USER")
        password    == env_var(env, "DB_PASSWORD")
        database    == env_var(env, "DB_NAME")
    IN IF ~listen_addr.ok THEN Err(Config("LISTEN_ADDR"))
       ELSE IF ~listen_port.ok THEN Err(Config("LISTEN_PORT"))
       ELSE IF ~host.ok THEN Err(Config("DB_HOST"))
       ELSE IF ~port.ok THEN Err(Config("DB_PORT"))
       ELSE IF ~username.ok THEN Err(Config("DB_USER"))
       ELSE IF ~password.ok THEN Err(Config("DB_PASSWORD"))
       ELSE IF ~database.ok THEN Err(Config("DB_NAME"))
       ELSE Ok([network  |-> [interface |-> interface, listen_addr |-> listen_addr.val,
                              listen_port |-> listen_port.val, mtu |-> 1500,
                              buffer_size |-> 65535],
                database |-> [host |-> host.val, port |-> port.val,
                              username |-> username.val, password |-> password.val,
                              database |-> database.val, max_connections |-> 10],
                security |-> [idps_enabled |-> TRUE, firewall_enabled |-> TRUE,
                              max_packet_size |-> 65535, rate_limit |-> 1000]])

EnvKeys == {"NETWORK_INTERFACE", "LISTEN_ADDR", "LISTEN_PORT", "DB_HOST", "DB_PORT",
            "DB_USER", "DB_PASSWORD", "DB_NAME"}

\* the values the environment is given: unset, texts, bytes that are not Unicode
EnvTexts(key) ==
    CASE key = "NETWORK_INTERFACE" -> {<<"t", "e", "s", "t", "0">>}
      [] key = "LISTEN_ADDR" -> {<<"1", "0", ".", "0", ".", "0", ".", "1">>,
                                 <<"1", "0", ".", "0", ".", "2", "5", "6">>}
      [] key = "LISTEN_PORT" -> {<<"8", "0", "8", "0">>, <<"6", "5", "5", "3", "6">>}
      [] key = "DB_HOST" -> {<<"l", "o", "c", "a", "l", "h", "o", "s", "t">>}
      [] key = "DB_PORT" -> {<<"5", "4", "3", "3">>, <<>>}
      [] key = "DB_USER" -> {<<"t", "e", "s", "t">>}
      [] key = "DB_PASSWORD" -> {<<"t", "e", "s", "t">>}
      [] key = "DB_NAME" -> {<<"t", "e", "s", "t", "_", "d", "b">>}
EnvValues(key) == {None, Some(NotUnicodeBytes)} \cup {Some(OsStr(t)) : t \in EnvTexts(key)}

CfInit ==
    /\ cf_env = [k \in EnvKeys |-> None]
    /\ cf_result = None

\* std::env::set_var / remove_var before the configuration is read
SetVar ==
    /\ \E k \in EnvKeys : \E v \in EnvValues(k) :
         /\ cf_env[k] # v
         /\ cf_env' = [cf_env EXCEPT ![k] = v]
    /\ cf_result' = None
    /\ UNCHANGED notCf

FromEnv ==
    /\ cf_result = None
    /\ cf_result' = Some(from_env(cf_env))
    /\ UNCHANGED cf_env
    /\ UNCHANGED notCf

\* ------------------------------------------------------------------------
\* src/security/firewall/{filter.rs, rules.rs} : Firewall behind its RwLock
\* src/vpn/firewall.rs : IpFirewall::add_rule
\* ------------------------------------------------------------------------
notSec == <<fwVars, wrVars, plVars, injVars, pfVars, raVars, tcVars, ppVars, cfVars, wgVars, clVars, optVars>>

MaxRules == 3       \* rules in one list, at most

\* FirewallCondition and FirewallRule::matches (rules.rs)
condition_holds(c, packet) ==
    CASE c.kind = "SourceIP"        -> packet.network.ver = 4 /\ packet.network.source = c.val
      [] c.kind = "DestinationIP"   -> packet.network.ver = 4 /\ packet.network.destination = c.val
      [] c.kind = "SourcePort"      -> packet.transport # None /\ packet.transport[1].kind = "TCP"
                                          /\ packet.transport[1].source_port = c.val
      [] c.kind = "DestinationPort" -> packet.transport # None /\ packet.transport[1].kind = "TCP"
                                          /\ packet.transport[1].destination_port = c.val
      [] c.kind = "Protocol"        -> packet.network.ver = 4 /\ packet.network.protocol = c.val
      [] c.kind = "State"           -> TRUE

matches(rule, packet) ==
    \A i \in 1..Len(rule.conditions) : condition_holds(rule.conditions[i], packet)

\* slice::sort_by_key(|r| Reverse(r.priority)) is a stable sort: the rule goes
\* behind every rule whose priority is not lower
RECURSIVE insert_by_priority(_, _)
insert_by_priority(sorted, r) ==
    IF sorted = <<>> THEN <<r>>
    ELSE IF Head(sorted).priority >= r.priority
         THEN <<Head(sorted)>> \o insert_by_priority(Tail(sorted), r)
         ELSE <<r>> \o sorted

RECURSIVE stable_sort_desc(_)
stable_sort_desc(rules) ==
    IF rules = <<>> THEN <<>>
    ELSE insert_by_priority(stable_sort_desc(SubSeq(rules, 1, Len(rules) - 1)),
                            rules[Len(rules)])

sort_skipped(rules) == rules
sort_by_key_reverse(rules) == stable_sort_desc(rules)

\* Vec::retain(|r| r.name != name)
retain_other_names(rules, name) == SelectSeq(rules, LAMBDA r : r.name # name)

\* the verdict of the rule check stops at
verdict(rule) == rule.action = "Accept"

\* tokio::sync::RwLock: read() waits for the writer, write() for everybody
LockFree == [writer |-> FALSE, readers |-> 0]
can_read(lock) == ~lock.writer
can_write(lock) == ~lock.writer /\ lock.readers = 0

SshRule == [name |-> "SSH Access",
            conditions |-> <<[kind |-> "DestinationPort", val |-> 22],
                             [kind |-> "Protocol", val |-> 6]>>,
            action |-> "Drop", priority |-> 100]
WebRule == [name |-> "Web", conditions |-> <<[kind |-> "DestinationPort", val |-> 80]>>,
            action |-> "Accept", priority |-> 110]
TcpRule == [name |-> "SSH Access", conditions |-> <<[kind |-> "Protocol", val |-> 6]>>,
            action |-> "Reject", priority |-> 100]
SecRules == {SshRule, WebRule, TcpRule}
SecNames == {r.name : r \in SecRules}

SecPacket(protocol, transport) ==
    [network |-> [ver |-> 4, source |-> MyIp, destination |-> OtherIp, protocol |-> protocol],
     transport |-> transport]
SecPackets ==
    {SecPacket(6, Some([kind |-> "TCP", source_port |-> 40000, destination_port |-> 80])),
     SecPacket(17, None)}

\* vpn/firewall.rs Rule { filter, priority }, the rules of rdb_vpn.rs
MaxIpRules == 2     \* rules in the IpFirewall list, at most
IpRules == {[filter |-> [kind |-> "IpAddress", val |-> V4(192, 168, 1, 100)], priority |-> 100],
            [filter |-> [kind |-> "Port", val |-> 8080], priority |-> 90]}

WriterIdleSec == [pc |-> "idle", arg |-> None]
ReaderIdle == [pc |-> "idle", packet |-> None, i |-> 0, at_lock |-> <<>>, result |-> None]

SecInit ==
    /\ sec_rules = <<>>
    /\ sec_lock = LockFree
    /\ sec_writer = WriterIdleSec
    /\ sec_reader = ReaderIdle
    /\ ip_rules = <<>>

\* Firewall::add_rule is called and awaits rules.write()
AddRuleCall ==
    /\ sec_writer.pc = "idle"
    /\ Len(sec_rules) < MaxRules
    /\ \E rule \in SecRules :
         sec_writer' = [sec_writer EXCEPT !.pc = "add_wait", !.arg = Some(rule)]
    /\ UNCHANGED <<sec_rules, sec_lock, sec_reader, ip_rules>>
    /\ UNCHANGED notSec

AddRuleLock ==
    /\ sec_writer.pc = "add_wait"
    /\ can_write(sec_lock)
    /\ sec_lock' = [sec_lock EXCEPT !.writer = TRUE]
    /\ sec_writer' = [sec_writer EXCEPT !.pc = "add_locked"]
    /\ UNCHANGED <<sec_rules, sec_reader, ip_rules>>
    /\ UNCHANGED notSec

\* rules.push(rule)
AddRulePush ==
    /\ sec_writer.pc = "add_locked"
    /\ sec_rules' = Append(sec_rules, sec_writer.arg[1])
    /\ sec_writer' = [sec_writer EXCEPT !.pc = "add_pushed"]
    /\ UNCHANGED <<sec_lock, sec_reader, ip_rules>>
    /\ UNCHANGED notSec

\* rules.sort_by_key(..), then the write guard is dropped
AddRuleSort ==
    /\ sec_writer.pc = "add_pushed"
    /\ sec_rules' = sort_by_key_reverse(sec_rules)
    /\ sec_lock' = [sec_lock EXCEPT !.writer = FALSE]
    /\ sec_writer' = WriterIdleSec
    /\ UNCHANGED <<sec_reader, ip_rules>>
    /\ UNCHANGED notSec

\* Firewall::remove_rule is called and awaits rules.write()
RemoveRuleCall ==
    /\ sec_writer.pc = "idle"
    /\ \E name \in SecNames :
         sec_writer' = [sec_writer EXCEPT !.pc = "remove_wait", !.arg = Some(name)]
    /\ UNCHANGED <<sec_rules, sec_lock, sec_reader, ip_rules>>
    /\ UNCHANGED notSec

RemoveRuleLock ==
    /\ sec_writer.pc = "remove_wait"
    /\ can_write(sec_lock)
    /\ sec_lock' = [sec_lock EXCEPT !.writer = TRUE]
    /\ sec_writer' = [sec_writer EXCEPT !.pc = "remove_locked"]
    /\ UNCHANGED <<sec_rules, sec_reader, ip_rules>>
    /\ UNCHANGED notSec

\* rules.retain(..), then the write guard is dropped
RemoveRuleRetain ==
    /\ sec_writer.pc = "remove_locked"
    /\ sec_rules' = retain_other_names(sec_rules, sec_writer.arg[1])
    /\ sec_lock' = [sec_lock EXCEPT !.writer = FALSE]
    /\ sec_writer' = WriterIdleSec
    /\ UNCHANGED <<sec_reader, ip_rules>>
    /\ UNCHANGED notSec

\* Firewall::check is called and awaits rules.read()
CheckCall ==
    /\ sec_reader.pc = "idle"
    /\ \E packet \in SecPackets :
         sec_reader' = [pc |-> "wait", packet |-> Some(packet), i |-> 0,
                        at_lock |-> <<>>, result |-> None]
    /\ UNCHANGED <<sec_rules, sec_lock, sec_writer, ip_rules>>
    /\ UNCHANGED notSec

CheckLock ==
    /\ sec_reader.pc = "wait"
    /\ can_read(sec_lock)
    /\ sec_lock' = [sec_lock EXCEPT !.readers = @ + 1]
    /\ sec_reader' = [sec_reader EXCEPT !.pc = "reading", !.i = 1, !.at_lock = sec_rules]
    /\ UNCHANGED <<sec_rules, sec_writer, ip_rules>>
    /\ UNCHANGED notSec

\* one turn of `for rule in rules.iter()`, or the default after the loop; a
\* return drops the read guard
CheckRule ==
    /\ sec_reader.pc = "reading"
    /\ LET i == sec_reader.i
           done(result) == /\ sec_reader' = [sec_reader EXCEPT !.pc = "idle",
                                                               !.result = Some(result)]
                           /\ sec_lock' = [sec_lock EXCEPT !.readers = @ - 1]
       IN IF i > Len(sec_rules) THEN done(TRUE)
          ELSE IF matches(sec_rules[i], sec_reader.packet[1]) THEN done(verdict(sec_rules[i]))
          ELSE /\ sec_reader' = [sec_reader EXCEPT !.i = i + 1]
               /\ UNCHANGED sec_lock
    /\ UNCHANGED <<sec_rules, sec_writer, ip_rules>>
    /\ UNCHANGED notSec

\* IpFirewall::add_rule(&mut self, ..): push, then the same sort
IpAddRule ==
    /\ Len(ip_rules) < MaxIpRules
    /\ \E rule \in IpRules :
         ip_rules' = sort_by_key_reverse(Append(ip_rules, rule))
    /\ UNCHANGED <<sec_rules, sec_lock, sec_writer, sec_reader>>
    /\ UNCHANGED notSec



\* ------------------------------------------------------------------------
\* src/host_idps/ip_reassembly.rs : IpReassembler::cleanup on a full table
\* ------------------------------------------------------------------------
notCl == <<fwVars, wrVars, plVars, injVars, pfVars, raVars, tcVars, ppVars, cfVars, secVars, wgVars, optVars>>

\* the table limit of the reassembler under test, in place of the 5000 that
\* IpReassembler::new sets
ClMaxBuffers == 2

\* instants at which process_packet created the buffers, and at which cleanup runs
ClCreated == {0, 35, 40, 50}
ClNow == 60

\* the keys of the datagrams under reassembly
ClKeys == { <<V4(10, 0, 0, 1), V4(10, 0, 0, 2), id>> : id \in 1..(ClMaxBuffers + 1) }

ClInit ==
    /\ cl_buffers = << >>
    /\ cl_call = None
    /\ cl_after = None

\* process_packet with a new key: or_insert_with(ReassemblyBuffer { .. }); a table
\* grows to max_buffers + 1 entries before cleanup_if_needed sees it over the limit
ClInsert ==
    \E key \in ClKeys, t \in ClCreated :
        /\ cl_call = None
        /\ key \notin DOMAIN cl_buffers
        /\ Cardinality(DOMAIN cl_buffers) <= ClMaxBuffers
        /\ cl_buffers' = [ k \in (DOMAIN cl_buffers) \cup {key} |->
                             IF k = key
                             THEN [fragments |-> <<>>, total_length |-> 0, last_activity |-> t]
                             ELSE cl_buffers[k] ]
        /\ UNCHANGED <<cl_call, cl_after, notCl>>

\* IpReassembler::cleanup
ClCleanup ==
    /\ cl_call = None
    /\ \E after \in cleanup(cl_buffers, ClNow, ClMaxBuffers) :
          /\ cl_after' = Some(after)
          /\ cl_call' = Some([now |-> ClNow, before |-> cl_buffers])
    /\ UNCHANGED <<cl_buffers, notCl>>

\* ------------------------------------------------------------------------
\* src/inspector/tcp_header.rs : parse_tcp_options, one loop iteration per step
\* ------------------------------------------------------------------------
notOpt == <<fwVars, wrVars, plVars, injVars, pfVars, raVars, tcVars, ppVars, cfVars, secVars, wgVars, clVars>>

MaxOptLen == 4          \* option bytes handed to one call, at most
MaxIterations == 6      \* loop iterations followed in one call

\* option kinds End, NOP, MSS and two others; as length bytes 0, 1, 2, 3 and 4
OptBytes == {0, 1, 2, 3, 4}
OptInputs == UNION { [1..n -> OptBytes] : n \in 0..MaxOptLen }

OptInit ==
    /\ opt_data = <<>>
    /\ opt_i = 0
    /\ opt_pc = "idle"
    /\ opt_ret = None
    /\ opt_iterations = 0

\* parse_tcp_options(&payload[..options_end]): `let mut i = 0;`
OptCall ==
    \E data \in OptInputs :
        /\ opt_pc \in {"idle", "done"}
        /\ opt_data' = data
        /\ opt_i' = 0
        /\ opt_pc' = "loop"
        /\ opt_ret' = None
        /\ opt_iterations' = 0
        /\ UNCHANGED notOpt

\* where one pass through `while i < data.len() { match data[i] { .. } }` leaves
\* the call: the index, and the value returned if the loop was left
loop_iteration(data, i) ==
    IF ~(i < Len(data)) THEN [i |-> i, exit |-> TRUE, ret |-> None]
    ELSE CASE At(data, i) = 0 -> [i |-> i, exit |-> TRUE, ret |-> None]
           [] At(data, i) = 1 -> [i |-> i + 1, exit |-> FALSE, ret |-> None]
           [] At(data, i) = 2 /\ Len(data) >= i + 4 ->
                [i |-> i, exit |-> TRUE,
                 ret |-> Some(be16(At(data, i + 2), At(data, i + 3)))]
           [] OTHER ->
                IF Len(data) > i + 1
                THEN [i |-> i + At(data, i + 1), exit |-> FALSE, ret |-> None]
                ELSE [i |-> i, exit |-> TRUE, ret |-> None]

\* one iteration of the loop of parse_tcp_options
OptIteration ==
    /\ opt_pc = "loop"
    /\ opt_iterations < MaxIterations
    /\ LET step == loop_iteration(opt_data, opt_i)
       IN /\ opt_i' = step.i
          /\ opt_pc' = IF step.exit THEN "done" ELSE "loop"
          /\ opt_ret' = step.ret
    /\ opt_iterations' = opt_iterations + 1
    /\ UNCHANGED <<opt_data, notOpt>>

\* ------------------------------------------------------------------------
\* Specifications
\* ------------------------------------------------------------------------
Init == FwInit /\ WrInit /\ PlInit /\ InjInit /\ PfIdle /\ RaInit /\ TcInit /\ PpInit /\ CfInit /\ SecInit /\ WgInit /\ ClInit /\ OptInit

FirewallNext ==
    \/ FwNew
    \/ FwAddRule
    \/ FwCheck
SpecFirewall == Init /\ [][FirewallNext]_vars

WriterNext ==
    \/ ClockTick
    \/ Capture
    \/ TaskParse
    \/ TaskPush
    \/ WriterTick
    \/ WriterPoolGet
    \/ WriterBegin
    \/ WriterExecute
    \/ WriterCommit
SpecWriter == Init /\ [][WriterNext]_vars

PollerNext ==
    \/ CommitRow
    \/ PollPackets
SpecPoller == Init /\ [][PollerNext]_vars

InjectorNext ==
    \/ StoreRow
    \/ PassPoll
    \/ PassSend
    \/ PassEnd
SpecInjector == Init /\ [][InjectorNext]_vars

ParseNext ==
    \/ ParsePacket
InitParse == FwInit /\ WrInit /\ PlInit /\ InjInit /\ ParseInit /\ RaInit /\ TcInit /\ PpInit /\ CfInit /\ SecInit /\ WgInit /\ ClInit /\ OptInit
SpecParse == InitParse /\ [][ParseNext]_vars

ReassemblyNext ==
    \/ RaProcessPacket
SpecReassembly == Init /\ [][ReassemblyNext]_vars

TcpNext ==
    \/ TcIteration
SpecTcp == Init /\ [][TcpNext]_vars

PipelineNext ==
    \/ SignalHandler
    \/ AppShutdown
    \/ ReceiveStep
    \/ TransmitCheck
    \/ TransmitFetch
    \/ TransmitInject
    \/ TransmitSleep
    \/ WriterLoopTick
    \/ WriterLoopProcess
    \/ InjectLoopStart
    \/ InjectLoopTick
    \/ InjectLoopPoll
SpecPipeline == Init /\ [][PipelineNext]_vars

\* every task that can take a step is polled again (the tokio scheduler), the
\* interval timers fire, and the L2 channel and the store answer every call
TransmitRuns == TransmitCheck \/ TransmitFetch \/ TransmitInject \/ TransmitSleep
WriterLoopRuns == WriterLoopTick \/ WriterLoopProcess
InjectLoopRuns == InjectLoopStart \/ InjectLoopTick \/ InjectLoopPoll
SpecPipelineFair ==
    /\ Init /\ [][PipelineNext]_vars
    /\ WF_vars(AppShutdown) /\ WF_vars(ReceiveStep) /\ WF_vars(TransmitRuns)
    /\ WF_vars(WriterLoopRuns) /\ WF_vars(InjectLoopRuns)

ConfigNext ==
    \/ SetVar
    \/ FromEnv
SpecConfig == Init /\ [][ConfigNext]_vars

RuleListNext ==
    \/ AddRuleCall
    \/ AddRuleLock
    \/ AddRulePush
    \/ AddRuleSort
    \/ RemoveRuleCall
    \/ RemoveRuleLock
    \/ RemoveRuleRetain
    \/ CheckCall
    \/ CheckLock
    \/ CheckRule
    \/ IpAddRule
SpecRuleList == Init /\ [][RuleListNext]_vars

\* the writer under load: bursts of pushes, no parsing
BatchNext ==
    \/ PushBurst
    \/ WriterTick
    \/ WriterPoolGet
    \/ WriterBegin
    \/ WriterExecute
    \/ WriterCommit
SpecBatch == Init /\ [][BatchNext]_vars

\* cleanup of a reassembler whose table is at or over its limit
CleanupNext ==
    \/ ClInsert
    \/ ClCleanup
SpecCleanup == Init /\ [][CleanupNext]_vars

\* parse_tcp_options over short option byte strings
OptionsNext ==
    \/ OptCall
    \/ OptIteration
SpecOptions == Init /\ [][OptionsNext]_vars

Next == FirewallNext \/ WriterNext \/ PollerNext \/ InjectorNext \/ ParseNext
            \/ ReassemblyNext \/ TcpNext \/ PipelineNext \/ ConfigNext \/ RuleListNext \/ BatchNext \/ CleanupNext \/ OptionsNext
Spec == Init /\ [][Next]_vars

\* ------------------------------------------------------------------------
\* Properties
\* ------------------------------------------------------------------------

\* C1 (SpecFirewall): check returns true under Whitelist exactly when some rule's
\* filter matches the packet and under Blacklist exactly when none does, whatever
\* the rules' priorities (0 included) and the iteration order.
C1_AnyRuleMatches ==
    \E f \in DOMAIN fw_rules : filter_matches(f, fw_packet[1])
C1_CheckIsAnyMatchUnderPolicy ==
    fw_packet # None =>
        fw_result = (IF fw_policy = "Whitelist" THEN C1_AnyRuleMatches
                                                ELSE ~C1_AnyRuleMatches)

\* every PacketData that sits in the buffer, in the writer's batch, in the open
\* transaction or in a committed batch
StagedOrStored ==
    Range(PACKET_BUFFER) \cup Range(writer.packets) \cup Range(writer.tx)
        \cup Range(Flatten(db_committed))

C2_CheckOf(frame) ==
    \A order \in Perms(DOMAIN FIREWALL_rules) :
        check(FIREWALL_rules, order, FIREWALL_policy,
              firewall_packet_of(parse_and_analyze_packet(frame)))

\* C2 (SpecWriter): a record is in the staging buffer, in a drained batch or in the
\* store only if it was parsed from the frame captured under its id and
\* FIREWALL.check returned true for the 5-tuple parsed from that frame.
C2_OnlyAcceptedFramesStaged ==
    \A pd \in StagedOrStored :
        /\ pd.raw_packet = captured[pd.id]
        /\ C2_CheckOf(captured[pd.id])

\* C2 witness: one task finished with a frame the firewall rejected while another
\* frame has been committed to the store.
C2_Witness ==
    /\ db_committed # <<>>
    /\ \E id \in 1..Len(tasks) :
          /\ tasks[id].pc = "done"
          /\ tasks[id].pd # None
          /\ ~C2_CheckOf(captured[id])

\* C3 (SpecWriter): once process_packets has failed for a drained batch, the staging
\* buffer starts with the frames of that batch, in their order, ahead of the
\* frames pushed since the drain.
C3_FailedBatchRequeued ==
    lastFlush.result = "err" => IsPrefix(lastFlush.batch, PACKET_BUFFER)

\* C4 (SpecWriter): no pushed frame is committed more than once, neither in two
\* committed transactions nor twice in one.
C4_CommittedAtMostOnce ==
    LET rows == Flatten(db_committed)
    IN \A i, j \in 1..Len(rows) : i # j => rows[i].id # rows[j].id

\* C4 witness: a transaction has committed and a later batch has failed.
C4_Witness ==
    /\ db_committed # <<>>
    /\ lastFlush.result = "err"
    /\ lastFlush.batch # <<>>

\* C5 (SpecWriter): the frames of the producer are pushed in the order in which
\* they were read from the L2 channel.
C5_PushOrderIsCaptureOrder ==
    \A i, j \in 1..Len(pushOrder) : i < j => pushOrder[i] < pushOrder[j]

\* C6 (SpecWriter): for two batches committed in that order, no timestamp of the
\* earlier batch is greater than a timestamp of the later one.
C6_BatchTimestampsOrdered ==
    \A i, j \in 1..Len(db_committed) :
        i < j => \A r \in Range(db_committed[i]), q \in Range(db_committed[j]) :
                    r.timestamp <= q.timestamp

\* a capacity smaller than the number of frames the producer delivers in a run
STAGING_CAPACITY == MaxFrames - 1

\* C7 (SpecWriter): the staging buffer never holds more frames than a fixed capacity.
C7_StagingBufferBounded ==
    Len(PACKET_BUFFER) <= STAGING_CAPACITY

\* C8 (SpecPoller): after every poll_packets call the watermark is not smaller
\* than it was before the call.
C8_WatermarkNeverDecreases ==
    (lastPoll.outcome # "none" /\ lastPoll.before # None) =>
        last_timestamp[1] >= lastPoll.before[1]

ReturnedIds == { lastPoll.returned[i].id : i \in 1..Len(lastPoll.returned) }

\* C9 (SpecPoller): a row returned by one poll_packets call is not returned by a
\* later call.
C9_NoRowReturnedTwice ==
    ReturnedIds \cap lastPoll.earlier = {}

\* the rows the local host should receive, in the claim's words
C10_ForLocalHost(r) ==
    /\ r.raw_len <= 1500
    /\ \/ r.dst_ip = MyIp
       \/ r.dst_ip = V4(255, 255, 255, 255)
       \/ (r.dst_ip.ver = 4 /\ r.dst_ip.octets[1] \in 224..239)

C10_Ascending(rows) ==
    \A i, j \in 1..Len(rows) : i < j => rows[i].timestamp <= rows[j].timestamp

C10_InWindow(r) ==
    IF lastPoll.first THEN r.timestamp >= lastPoll.at - 30
    ELSE IF lastPoll.before # None THEN r.timestamp > lastPoll.before[1]
    ELSE r.timestamp >= lastPoll.at - 5

C11_OnlySendableFramesSent ==
    /\ \A i \in 1..Len(pass.attempts) :
          LET r == pass.attempts[i]
          IN /\ r.raw_len <= MAX_PACKET_SIZE
             /\ (r.dst_ip = MyIp \/ r.dst_ip = BroadcastIp \/ in_multicast_v4(r.dst_ip))
    /\ pass.state = "done" =>
          \A r \in lastPoll.visible :
              (r.raw_len = MAX_PACKET_SIZE /\ C10_ForLocalHost(r) /\ C10_InWindow(r))
                  => r \in Range(pass.attempts)

\* C11 witness: a finished pass handed a 1500-byte frame to the send while a
\* 1501-byte frame for the local host sat in the same window of the table.
C11_Witness ==
    /\ pass.state = "done"
    /\ \E a \in Range(pass.attempts) : a.raw_len = MAX_PACKET_SIZE
    /\ \E r \in lastPoll.visible :
          /\ r.raw_len = MAX_PACKET_SIZE + 1
          /\ r.dst_ip = MyIp
          /\ C10_InWindow(r)
          /\ r \notin Range(pass.attempts)

\* C12 as stated (SpecInjector): after a finished pass packets_sent has grown by the
\* number of frames sent and packets_failed by the number dropped or failed.
C12_CountersGrowByPass ==
    pass.state = "done" =>
        /\ packets_sent = pass.sent0 + pass.ok
        /\ packets_failed = pass.failed0 + pass.failed

\* C12 amended (SpecInjector): while a pass walks its packets, and after a pass
\* a channel error cut short, the counters have grown by the frames sent and by
\* the frames dropped or failed; a finished pass has logged those sums and left
\* both counters at 0.
C12_CountersLoggedThenReset ==
    /\ Len(pass.attempts) <= pass.ok + pass.failed
    /\ pass.state \in {"running", "aborted", "poll_err"} =>
          /\ packets_sent = pass.sent0 + pass.ok
          /\ packets_failed = pass.failed0 + pass.failed
    /\ pass.state = "done" =>
          /\ pass.logged = Some(<<pass.sent0 + pass.ok, pass.failed0 + pass.failed>>)
          /\ packets_sent = 0
          /\ packets_failed = 0

\* C12 witness: the first pass polled one frame, sent it once and finished.
C12_Witness ==
    /\ pass.state = "done"
    /\ Len(pass.polled) = 1
    /\ pass.attempts = pass.polled
    /\ pass.ok = 1
    /\ pass.sent0 = 0

\* C13 (SpecParse): for every frame of at least 14 bytes the parser returns a
\* record; it never panics on an index at or beyond the frame's length.
C13_ParserNeverPanics ==
    (pf_result # None /\ Len(pf_frame) >= 14) => ~pf_result[1].panic

\* the IPv4 packet inside the tagged frames
C14_Inner == parse_and_analyze_packet(FrameAllowed)

\* C14 (SpecParse): a frame with d stacked 802.1Q tags around a decodable IPv4
\* packet parses, for 1 <= d <= 5, to the inner packet's addresses, protocol and
\* ports; with 6 tags the parser returns the empty record.
C14_VlanParsedToInnerPacket ==
    \A d \in 1..MaxVlanTags :
        (pf_frame = VlanFrame(d) /\ pf_result # None) =>
            IF d <= 5
            THEN /\ ~pf_result[1].panic
                 /\ pf_result[1].src_ip = C14_Inner.src_ip
                 /\ pf_result[1].dst_ip = C14_Inner.dst_ip
                 /\ pf_result[1].ip_protocol = C14_Inner.ip_protocol
                 /\ pf_result[1].src_port = C14_Inner.src_port
                 /\ pf_result[1].dst_port = C14_Inner.dst_port
            ELSE pf_result[1] = create_empty_packet_data(pf_frame)

\* the first n fragments start at offset 0 and each starts where the one before ends
C15_Contiguous(frags, n) ==
    /\ n >= 1
    /\ frags[1].offset = 0
    /\ \A i \in 1..(n - 1) : frags[i + 1].offset = frags[i].offset + Len(frags[i].data)

\* C15 (SpecReassembly): process_packet returns Some only when the key's buffer
\* holds fragments contiguous from offset 0 up to and including one with
\* more_fragments = false; while the buffer holds no such fragment the call
\* returns None and keeps the buffer.
C15_SomeOnlyWhenLastFragmentSeen ==
    ra_last.key # None =>
        /\ ra_last.result # None =>
              \E n \in 1..Len(ra_last.walked) :
                  /\ ~ra_last.walked[n].more_fragments
                  /\ C15_Contiguous(ra_last.walked, n)
        /\ (\A i \in 1..Len(ra_last.walked) : ra_last.walked[i].more_fragments) =>
              /\ ra_last.result = None
              /\ ra_last.key[1] \in DOMAIN buffers
              /\ buffers[ra_last.key[1]].fragments = ra_last.walked

C16_Tile ==
    { IpFragment(f.flags_fragment_offset, f.payload) : f \in RaFragments }
C16_Payload == Frag0.payload \o Frag1.payload \o Frag2.payload

\* C16 (SpecReassembly): once the three fragments that tile the payload from
\* offset 0 have arrived for a key, each once and in whatever order, the
\* reassembler has emitted exactly one payload for it: the fragments' bytes
\* concatenated in offset order.
C16_AnyArrivalOrderSamePayload ==
    \A k \in RaKeys :
        (/\ k \notin ra_evicted
         /\ Len(ra_arrived[k]) = Cardinality(C16_Tile)
         /\ Range(ra_arrived[k]) = C16_Tile)
            => ra_emitted[k] = <<C16_Payload>>

\* C17 (SpecReassembly): per key a datagram is emitted at most once: after a
\* call returned Some the key has no buffer, and fragments of the datagram that
\* arrive again cause no second emission.
C17_EmittedAtMostOnce ==
    /\ \A k \in RaKeys : Len(ra_emitted[k]) <= 1
    /\ (ra_last.key # None /\ ra_last.result # None) => ra_last.key[1] \notin DOMAIN buffers

C18_KeyAB == <<HostA, 1000, HostB, 80>>

\* C18 (SpecTcp): after SYN(seq=100) A->B, SYN+ACK(seq=500, ack=101) B->A and
\* ACK(seq=101, ack=501) A->B on an empty flow table, the table holds exactly one
\* flow, keyed A->B, in state Established with client_next_seq = 101 and
\* server_next_seq = 501.
C18_HandshakeEstablishes ==
    tc_scenario = Len(Handshake) =>
        /\ DOMAIN streams = {C18_KeyAB}
        /\ streams[C18_KeyAB].state = "Established"
        /\ streams[C18_KeyAB].client_next_seq = u32(101)
        /\ streams[C18_KeyAB].server_next_seq = u32(501)

\* C18 witness: the three handshake segments, and nothing else, have been processed.
C18_Witness ==
    /\ tc_scenario = Len(Handshake)
    /\ tc_last.packet = Some(Handshake[3])
    /\ tc_last.is_from_client

\* the last segment carried the sequence number its direction expected
C19_InOrder ==
    /\ tc_last.before # None
    /\ tc_last.packet[1].seq_num =
          IF tc_last.is_from_client THEN tc_last.before[1].client_next_seq
          ELSE tc_last.before[1].server_next_seq

\* C19 (SpecTcp): processing an in-order segment never sets client_next_seq or
\* server_next_seq to a value behind its previous value, modulo 2^32.
C19_NextSeqOnlyForward ==
    C19_InOrder =>
        /\ seq_not_behind(tc_last.before[1].client_next_seq, tc_last.after[1].client_next_seq)
        /\ seq_not_behind(tc_last.before[1].server_next_seq, tc_last.after[1].server_next_seq)

\* C20 (SpecTcp): after each iteration of the capture loop the flow table holds
\* no flow in state Closed and no flow whose last_activity is more than 300 s old.
C20_NoClosedNoStaleFlow ==
    \A k \in DOMAIN streams :
        /\ streams[k].state # "Closed"
        /\ tc_now - streams[k].last_activity <= FLOW_IDLE_SECS

\* ---- C21 ----
\* C21: once the shutdown signal is raised, the receive pipeline, the
\* transmit pipeline, the batch writer loop and the poll-and-inject loop each
\* see it at an iteration boundary and return: under fair scheduling the
\* signal leads to a state where all four have returned.
C21_Returned(pc) == pc = "returned"
C21_TasksReturnAfterSignal ==
    signal ~> ( /\ C21_Returned(receive_task)
                /\ C21_Returned(transmit_task.pc)
                /\ C21_Returned(writer_loop)
                /\ C21_Returned(inject_loop) )

\* ---- C22 ----
\* C22: a failed store operation inside a task is recovered by that task; the
\* process never exits because a single store operation failed.
C22_StoreErrorNeverExits == ~(app.pc = "exit1" /\ app.cause = "Store")

\* ---- C23 ----
\* C23: from_env returns a configuration whose interface is NETWORK_INTERFACE
\* ("eth0" when unset) and whose database host, username, password and
\* database are DB_HOST, DB_USER, DB_PASSWORD and DB_NAME; it returns a Config
\* error exactly when one of those four is unset or DB_PORT, LISTEN_ADDR or
\* LISTEN_PORT is set to a value that does not parse.
C23_Unset(key) == cf_env[key] = None
C23_Is(key, text) == cf_env[key] = Some(OsStr(text))
C23_Unparsable(key) ==
    /\ ~C23_Unset(key)
    /\ LET os == cf_env[key][1]
       IN \/ ~os.unicode
          \/ ~(IF key = "LISTEN_ADDR" THEN parse_ip_addr(os.text) ELSE parse_u16(os.text)).ok
C23_ErrorExpected ==
    \/ \E key \in {"DB_HOST", "DB_USER", "DB_PASSWORD", "DB_NAME"} : C23_Unset(key)
    \/ \E key \in {"DB_PORT", "LISTEN_ADDR", "LISTEN_PORT"} : C23_Unparsable(key)
C23_FromEnvContract ==
    cf_result # None =>
        LET r == cf_result[1]
        IN /\ r.ok <=> ~C23_ErrorExpected
           /\ ~r.ok => r.err.kind = "Config"
           /\ r.ok =>
                /\ IF C23_Unset("NETWORK_INTERFACE")
                   THEN r.val.network.interface = <<"e", "t", "h", "0">>
                   ELSE C23_Is("NETWORK_INTERFACE", r.val.network.interface)
                /\ C23_Is("DB_HOST", r.val.database.host)
                /\ C23_Is("DB_USER", r.val.database.username)
                /\ C23_Is("DB_PASSWORD", r.val.database.password)
                /\ C23_Is("DB_NAME", r.val.database.database)
\* the same contract read over environments whose values are all valid Unicode
C23_AllUnicode == \A key \in EnvKeys : cf_env[key] # None => cf_env[key][1].unicode
C23_ContractOnUnicode == C23_AllUnicode => C23_FromEnvContract

\* ---- C24 ----
\* C24: whenever no add_rule or remove_rule is under way the rule list is in
\* non-increasing priority order, and a check that overlaps a mutation walks
\* one complete sorted list: the list does not change while it reads, and its
\* answer is the first matching rule's verdict over the list it locked.
C24_Sorted(rules) ==
    \A i \in 1..Len(rules), j \in 1..Len(rules) :
        i < j => rules[i].priority >= rules[j].priority
C24_FirstMatch(rules, packet) ==
    LET hits == {i \in 1..Len(rules) : matches(rules[i], packet)}
    IN IF hits = {} THEN TRUE
       ELSE verdict(rules[CHOOSE i \in hits : \A j \in hits : i <= j])
C24_SortedAndWholeList ==
    /\ sec_writer.pc \in {"idle", "add_wait", "remove_wait"} => C24_Sorted(sec_rules)
    /\ C24_Sorted(ip_rules)
    /\ sec_reader.pc = "reading" =>
          /\ sec_rules = sec_reader.at_lock
          /\ C24_Sorted(sec_rules)
    /\ sec_reader.result # None =>
          /\ C24_Sorted(sec_reader.at_lock)
          /\ sec_reader.result[1] = C24_FirstMatch(sec_reader.at_lock, sec_reader.packet[1])
\* an add_rule has pushed and not yet sorted, the list is out of order, and a
\* check called meanwhile waits for the lock
C24_Witness ==
    /\ sec_writer.pc = "add_pushed"
    /\ ~C24_Sorted(sec_rules)
    /\ sec_reader.pc = "wait"

\* ---- C25 ----
\* C25: a drained batch is stored all or nothing: the table shows every row of
\* the batch once its commit succeeded and none of them before that or after
\* a failed execute or commit; no state shows only some chunks of a batch.
\* the ids of a batch: an interval when the batch is a run of consecutive ids
\* (the same set, cheaper to test), the enumerated set otherwise
C25_Consecutive(batch) == \A i \in 1..Len(batch) : batch[i].id = batch[1].id + (i - 1)
C25_Ids(batch) ==
    IF batch = <<>> THEN {}
    ELSE IF C25_Consecutive(batch) THEN batch[1].id .. batch[Len(batch)].id
    ELSE {batch[i].id : i \in 1..Len(batch)}
C25_Visible == UNION {C25_Ids(db_committed[b]) : b \in 1..Len(db_committed)}
C25_NoneOf(batch) ==
    LET ids == C25_Ids(batch)
    IN \A b \in 1..Len(db_committed) : \A i \in 1..Len(db_committed[b]) :
           db_committed[b][i].id \notin ids
C25_AllOf(batch) ==
    LET visible == C25_Visible
    IN \A i \in 1..Len(batch) : batch[i].id \in visible
C25_BatchAllOrNothing ==
    /\ writer.pc # "tick" => C25_NoneOf(writer.packets)
    /\ lastFlush.result = "ok" => C25_AllOf(lastFlush.batch)
    /\ lastFlush.result = "err" => C25_NoneOf(lastFlush.batch)
\* a batch of more than one chunk failed after its first INSERT had run
C25_Witness ==
    /\ lastFlush.result = "err"
    /\ Len(lastFlush.batch) > CHUNK_SIZE
    /\ inserts # <<>>
    /\ Len(db_committed) = 1

\* ---- C26 ----
\* C26: a batch of N frames goes out as ceil(N / 1000) INSERTs inside one
\* transaction, each of 1 to 1000 rows, the chunks being consecutive slices of
\* the batch in enqueue order; the rows of a later tick come after those of an
\* earlier tick.
C26_Ceil(n, k) == (n + k - 1) \div k
RECURSIVE C26_Sum(_)
C26_Sum(s) == IF s = <<>> THEN 0 ELSE Head(s) + C26_Sum(Tail(s))
C26_Rows == Flatten(db_committed)
C26_ChunksInOrder ==
    /\ \A i \in 1..Len(inserts) : inserts[i] \in 1..CHUNK_SIZE
    /\ writer.pc \in {"execute", "commit"} =>
          /\ writer.tx = SubSeq(writer.packets, 1, writer.processed)
          /\ C26_Sum(inserts) = writer.processed
          /\ Len(inserts) = C26_Ceil(writer.processed, CHUNK_SIZE)
    /\ writer.pc = "commit" =>
          /\ writer.processed = Len(writer.packets)
          /\ Len(inserts) = C26_Ceil(Len(writer.packets), CHUNK_SIZE)
    /\ lastFlush.result = "ok" =>
          /\ db_committed[Len(db_committed)] = lastFlush.batch
          /\ Len(inserts) = C26_Ceil(Len(lastFlush.batch), CHUNK_SIZE)
    /\ LET rows == C26_Rows
       IN \A i \in 1..(Len(rows) - 1) : rows[i].id < rows[i + 1].id
\* 7500 frames stand before their commit after 8 INSERTs, behind an earlier tick
C26_Witness ==
    /\ writer.pc = "commit"
    /\ Len(writer.packets) = 7500
    /\ Len(inserts) = 8
    /\ Len(db_committed) = 1

\* ---- C27 ----
\* C27: the writer holds the buffer's lock only for the drain, never while it
\* waits for the pool or the store; every frame pushed so far is either in a
\* drained batch or still in the buffer, in push order, and never in both.
C27_IdsOf(frames) == [i \in 1..Len(frames) |-> frames[i].id]
C27_DrainNeverBlocksPush ==
    /\ writer.pc \in {"pool", "begin", "execute", "commit"} => buffer_lock = "free"
    /\ C27_IdsOf(PACKET_BUFFER) = SubSeq(pushOrder, drained + 1, Len(pushOrder))
    /\ writer.pc # "tick" =>
          C27_IdsOf(writer.packets) =
              SubSeq(pushOrder, drained - Len(writer.packets) + 1, drained)
    /\ \A i \in 1..Len(pushOrder), j \in 1..Len(pushOrder) :
          i # j => pushOrder[i] # pushOrder[j]
\* a frame was pushed while the transaction of an earlier frame is in flight
C27_Witness ==
    /\ writer.pc = "execute"
    /\ writer.packets # <<>>
    /\ PACKET_BUFFER # <<>>

\* C28 (SpecPoller): a poll that is not the first, succeeds and returns no rows
\* leaves the watermark as it was before the call.
C28_EmptyPollKeepsWatermark ==
    (lastPoll.outcome = "ok" /\ ~lastPoll.first /\ lastPoll.returned = <<>>) =>
        last_timestamp = lastPoll.before

\* the rows a poll returned, and the largest timestamp among them
C29_Returned(poll) == { poll.returned[i] : i \in 1..Len(poll.returned) }
C29_MaxTimestamp(poll) ==
    CHOOSE t \in { r.timestamp : r \in C29_Returned(poll) } :
        \A r \in C29_Returned(poll) : r.timestamp <= t

\* a first poll that succeeds: 30 s window, is_first cleared, watermark set
C29_FirstPoll ==
    (is_first_poll /\ lastPoll'.outcome = "ok") =>
        /\ lastPoll'.first
        /\ C29_Returned(lastPoll') =
              { r \in db_rows : C10_ForLocalHost(r) /\ r.timestamp >= lastPoll'.at - 30 }
        /\ is_first_poll' = FALSE
        /\ last_timestamp' =
              IF lastPoll'.returned = <<>> THEN Some(lastPoll'.at)
              ELSE Some(C29_MaxTimestamp(lastPoll'))

\* the poll that follows a successful first poll: strictly after its watermark
C29_NextPoll ==
    (lastPoll.first /\ lastPoll.outcome = "ok" /\ lastPoll'.outcome = "ok") =>
        /\ ~lastPoll'.first
        /\ last_timestamp # None
        /\ C29_Returned(lastPoll') =
              { r \in db_rows : C10_ForLocalHost(r) /\ r.timestamp > last_timestamp[1] }

\* C29 (SpecPoller): the poller starts with is_first = true and no watermark; a
\* first poll that succeeds returns the rows for the local host with timestamp
\* >= now - 30 s, clears is_first and sets the watermark to the largest returned
\* timestamp, or to the poll's instant when it returned no rows; the poll after
\* it returns only rows with timestamp strictly greater than that watermark.
C29_FirstPollSeedsWatermark ==
    /\ (is_first_poll = TRUE /\ last_timestamp = None)
    /\ [][lastPoll' # lastPoll => (C29_FirstPoll /\ C29_NextPoll)]_vars

\* C29 witness: the poll at 10 was the first and succeeded with a row stamped 15;
\* the poll at 20 returned a later row and left the row stamped 15 behind.
C29_Witness ==
    /\ lastPoll.at = 20
    /\ lastPoll.outcome = "ok"
    /\ ~lastPoll.first
    /\ lastPoll.before = Some(15)
    /\ lastPoll.returned # <<>>
    /\ \E r \in lastPoll.visible :
          /\ C10_ForLocalHost(r)
          /\ r.timestamp = 15
          /\ r.id \in lastPoll.earlier
          /\ r \notin Range(lastPoll.returned)

\* a poll whose query failed: error surfaced, nothing sent, watermark = its instant
C30_FailedPoll ==
    lastPoll'.outcome = "err" =>
        /\ lastPoll'.returned = <<>>
        /\ pass'.state = "poll_err"
        /\ pass'.attempts = <<>>
        /\ inj' = InjIdle
        /\ packets_sent' = packets_sent
        /\ packets_failed' = packets_failed
        /\ last_timestamp' = Some(lastPoll'.at)
        /\ is_first_poll' = is_first_poll

\* the poll after a failed first poll uses the 30 s window again
C30_FirstPollAgain ==
    (lastPoll.outcome = "err" /\ lastPoll.first) =>
        /\ lastPoll'.first
        /\ lastPoll'.outcome = "ok" =>
              C29_Returned(lastPoll') =
                  { r \in db_rows : C10_ForLocalHost(r) /\ r.timestamp >= lastPoll'.at - 30 }

\* C30 (SpecInjector): when the query of a poll fails, poll_packets returns an
\* error, no frame is sent in that pass, the watermark becomes that poll's
\* instant and is_first keeps its value, so that a failed first poll is followed
\* by another poll over the 30 s window.
C30_FailedPollSkipsPass ==
    /\ [](pass.state = "poll_err" => (inj = InjIdle /\ pass.attempts = <<>>))
    /\ [][lastPoll' # lastPoll => (C30_FailedPoll /\ C30_FirstPollAgain)]_vars

\* C30 witness: a first poll failed after an earlier failure, while a frame for the
\* local host inside the 30 s window was in the store.
C30_Witness ==
    /\ lastPoll.outcome = "err"
    /\ lastPoll.first
    /\ lastPoll.before # None
    /\ pass.state = "poll_err"
    /\ \E r \in lastPoll.visible :
          C10_ForLocalHost(r) /\ r.timestamp >= lastPoll.at - 30

\* a send that failed (Some(Err) or None): one more failure, the pass goes on with
\* the frames behind it
C31_SendErrorContinues ==
    (inj.pc = "send" /\ Len(pass'.attempts) > Len(pass.attempts) /\ pass'.ok = pass.ok) =>
        /\ packets_failed' = packets_failed + 1
        /\ packets_sent' = packets_sent
        /\ pass'.state = "running"
        /\ inj'.pc = "send"
        /\ inj'.queue = Tail(inj.queue)

\* a pass that walked to its end attempted every polled frame, in timestamp order
C31_AllAttempted ==
    pass.state = "done" =>
        /\ pass.attempts = pass.polled
        /\ C10_Ascending(pass.attempts)

\* C31 as stated (SpecInjector): a send error on a frame adds one to packets_failed
\* and the later frames of the pass are still attempted in timestamp order; only a
\* non-Ethernet channel type aborts a pass.
C31_OnlyChannelTypeAborts ==
    /\ [](C31_AllAttempted /\ (pass.state = "aborted" => pass.cause = "channel_other"))
    /\ [][C31_SendErrorContinues]_vars

\* C31 amended (SpecInjector): a send error on a frame adds one to packets_failed
\* and the later frames of the pass are still attempted in timestamp order; a pass
\* is aborted only when datalink::channel answers a non-Ethernet channel type or
\* an error.
C31_OnlyChannelAborts ==
    /\ [](C31_AllAttempted
            /\ (pass.state = "aborted" => pass.cause \in {"channel_other", "channel_err"}))
    /\ [][C31_SendErrorContinues]_vars

\* C31 witness: a pass over two frames finished although a send in it failed.
C31_Witness ==
    /\ pass.state = "done"
    /\ Len(pass.polled) = 2
    /\ pass.attempts = pass.polled
    /\ pass.failed >= 1

\* C33 (SpecReassembly): every buffer's last_activity is the arrival time of the
\* latest fragment appended to it, and a buffer is removed for timeout only when
\* no fragment for its key arrived during the 30 s before the removal.
C33_ActivityFollowsArrivals ==
    /\ \A k \in DOMAIN buffers : buffers[k].last_activity = ra_last_arrival[k][1]
    /\ \A e \in ra_timed_out : e.at - e.last_arrival >= REASSEMBLY_TIMEOUT

\* the buffers the timeout retain of the last cleanup call kept
C32_Fresh ==
    { k \in DOMAIN cl_call[1].before :
        cl_call[1].now - cl_call[1].before[k].last_activity < REASSEMBLY_TIMEOUT }

\* C32 (SpecCleanup): cleanup removes every buffer older than the timeout; if more
\* than max_buffers remain it leaves exactly max_buffers, and every survivor's
\* last_activity is not older than that of any buffer evicted for size.
C32_SizeEvictionTakesOldest ==
    cl_call # None =>
        LET before == cl_call[1].before
            kept == DOMAIN cl_after[1]
        IN /\ kept \subseteq C32_Fresh
           /\ Cardinality(C32_Fresh) <= ClMaxBuffers => kept = C32_Fresh
           /\ Cardinality(C32_Fresh) > ClMaxBuffers =>
                 /\ Cardinality(kept) = ClMaxBuffers
                 /\ \A s \in kept, e \in C32_Fresh \ kept :
                       before[s].last_activity >= before[e].last_activity

\* C34 (SpecTcp): a segment carrying FIN, alone or together with other flags and
\* from either direction, that meets a flow in state Established leaves the flow
\* in FinWait1.
C34_FinLeavesEstablished ==
    (/\ tc_last.before # None
     /\ tc_last.before[1].state = "Established"
     /\ has_flag(tc_last.packet[1].flags, TCP_FIN))
        => tc_last.after[1].state = "FinWait1"

\* the silence before the last segment: the time since the flow's last_activity
C35_Silence == tc_last.at - tc_last.before[1].last_activity

\* C35 (SpecTcp): a segment that meets a flow in TimeWait more than 120 s after
\* the flow's last_activity leaves it Closed; a segment that comes earlier leaves
\* it in TimeWait.
C35_TimeWaitCollapses ==
    (tc_last.before # None /\ tc_last.before[1].state = "TimeWait") =>
        tc_last.after[1].state =
            IF C35_Silence > TIME_WAIT_SECS THEN "Closed" ELSE "TimeWait"

\* the keys of the segment the step processes
C36_Packet == tc_last'.packet[1]
C36_StreamKey ==
    <<C36_Packet.src_ip, C36_Packet.src_port, C36_Packet.dst_ip, C36_Packet.dst_port>>
C36_ReverseKey ==
    <<C36_Packet.dst_ip, C36_Packet.dst_port, C36_Packet.src_ip, C36_Packet.src_port>>

\* a flow appears only for a SYN of an unknown connection, under that segment's
\* direction, with the segment's sequence number as client ISN
C36_Creation ==
    \A k \in (DOMAIN streams') \ (DOMAIN streams) :
        /\ has_flag(C36_Packet.flags, TCP_SYN)
        /\ C36_StreamKey \notin DOMAIN streams
        /\ C36_ReverseKey \notin DOMAIN streams
        /\ k = C36_StreamKey
        /\ streams'[k].client_init_seq = C36_Packet.seq_num

\* the SYN+ACK of the opposite direction gives the server ISN and the server MSS
C36_SynAck ==
    (/\ has_flag(C36_Packet.flags, TCP_SYN) /\ has_flag(C36_Packet.flags, TCP_ACK)
     /\ C36_StreamKey \notin DOMAIN streams
     /\ C36_ReverseKey \in DOMAIN streams) =>
        /\ streams'[C36_ReverseKey].server_init_seq = C36_Packet.seq_num
        /\ LET opt == mss_option(C36_Packet, C36_Packet.payload)
           IN opt.res = "some" => streams'[C36_ReverseKey].server_mss = opt.mss

\* a segment without SYN of an unknown connection changes nothing
C36_UnknownIgnored ==
    (/\ ~has_flag(C36_Packet.flags, TCP_SYN)
     /\ C36_StreamKey \notin DOMAIN streams
     /\ C36_ReverseKey \notin DOMAIN streams) => streams' = streams

\* C36 (SpecTcp): a flow is created only by a SYN segment for which neither the
\* forward nor the reverse key exists, keyed by the segment's direction, with the
\* segment's sequence number as client ISN; the SYN+ACK from the opposite
\* direction sets the server ISN to its sequence number and the server MSS to its
\* MSS option; a segment without SYN for an unknown flow creates nothing and
\* changes nothing.
C36_FlowCreationAndServerIsn ==
    [][(tc_last' # tc_last /\ tc_last'.packet[1].protocol = 6)
          => (C36_Creation /\ C36_SynAck /\ C36_UnknownIgnored)]_vars

\* the states a flow of the table can be in
C39_States == {"SynSent", "Established", "FinWait1", "FinWait2", "TimeWait"}

\* a step of the capture loop removes no flow, and a flow it adds was created in
\* SynSent
C39_TableGrowsOnly ==
    /\ \A k \in DOMAIN streams : k \in DOMAIN streams'
    /\ \A k \in (DOMAIN streams') \ (DOMAIN streams) :
          /\ tc_last'.key = Some(k)
          /\ tc_last'.before[1].state = "SynSent"

C40_IndexAdvancesOrExits ==
    [][opt_iterations' = opt_iterations + 1 => (opt_i' > opt_i \/ opt_pc' = "done")]_vars

\* the flag is cleared only by a poll that succeeded, and with the watermark set
C38_ClearedBySuccess ==
    (is_first_poll = TRUE /\ is_first_poll' = FALSE) =>
        (lastPoll'.outcome = "ok" /\ lastPoll'.first /\ last_timestamp' # None)

\* C38 (SpecPoller): whenever is_first_poll is false, last_timestamp is Some; the
\* flag is cleared only by a successful poll, which has set the watermark; no poll
\* is made with the flag false and no watermark, so the 5-second look-back query is
\* never built.
C38_LookbackNeverTaken ==
    /\ [](/\ is_first_poll = FALSE => last_timestamp # None
          /\ lastPoll.outcome # "none" =>
                poll_mode(lastPoll.first, lastPoll.before) # "lookback")
    /\ [][C38_ClearedBySuccess]_vars

\* C38 witness: after the first poll had succeeded and a second poll had been
\* made at 20, the poll at 45 ran with the flag false and the watermark 20.
C38_Witness ==
    /\ is_first_poll = FALSE
    /\ lastPoll.at = 45
    /\ ~lastPoll.first
    /\ lastPoll.before = Some(20)
    /\ last_timestamp # None

\* the rows of the last batch without the row that failed to encode
C37_OtherRows ==
    SelectSeq(lastFlush.batch, LAMBDA r : r.id # lastFlush.failed_row[1])

\* C37 (SpecBatch): when one row of a chunk fails to encode, only that row is
\* left out: the other rows of the chunk and the other chunks of the batch are
\* inserted and the transaction is committed.
C37_OnlyFailedRowSkipped ==
    lastFlush.failed_row # None =>
        /\ db_committed # <<>>
        /\ db_committed[Len(db_committed)] = C37_OtherRows

====
